---- MODULE Spec2Model ----
(***************************************************************************)
(* Hushify Messenger: the key-directory prekey issuance (REST route        *)
(* GET /api/keys/[userId]) and the socket server's presence, routing,      *)
(* offline queue and acknowledgement relay (initSocketServer), with the    *)
(* client-side status handler of ChatProvider.                             *)
(***************************************************************************)
EXTENDS Integers, Sequences, FiniteSets, TLC

(***************************************************************************)
(* Bounds of the model.                                                    *)
(***************************************************************************)
\* size of the largest one-time prekey pool a user starts with
MaxPool == 3
\* number of prekey-bundle requests that may be in flight
MaxRequests == 3

Requests == 1 .. MaxRequests
\* oneTimePreKey = null (route.ts line 47)
NoKey == 0

\* ---- socket server bounds ----
\* connections accepted over a run (socket ids 1 .. MaxSockets)
MaxSockets == 2
\* message:send events handled over a run
MaxSends == 2
\* message:delivered / message:read events handled over a run
MaxAcks == 2
\* login / logout REST calls over a run
MaxRestCalls == 1
\* sends over a run of the acknowledgement relay
MaxAckSends == 1
\* typing events one client emits over a run
MaxTypingEmitted == 4
\* sends and typing events with a payload of the client's choosing
MaxAnySends == 1
MaxAnyTypings == 1
\* the stamps of one user's lastSeen and the entries of one user's list of
\* socket ids when listeners run a second time
MaxStamps == 2
MaxHandles == 3
\* typing:start / typing:stop events handled by the server
MaxTypings == 2
\* message:send events handled next to typing events
MaxTypingSends == 1
\* the length of a user id and the conversation ids computed over a run
MaxIdLength == 2
MaxComputed == 2
\* key pairs generated and messages encrypted over a run
MaxKeyPairs == 2
MaxEncrypts == 1
\* messages encrypted with the useEncryption hook over a run
MaxHookEncrypts == 2
\* initializeKeys calls of one user over a run
MaxInitCalls == 3
\* the clock advances in steps of one StepsPerWindow-th of the retention
\* window, MaxClockSteps times over a run
StepsPerWindow == 3
MaxClockSteps == 5

Users == {"alice", "bob"}
SocketIds == 1 .. MaxSockets
MsgIds == 1 .. MaxSends
\* a messageId that no sent message carries
UnknownMessageId == 0
NoUser == "none"
\* socket.handshake.auth.token of a socket that does not exist yet
NoToken == [kind |-> "none", userId |-> NoUser]
\* a key without expiry
NoExpiry == 0
\* redis.expire(`user:${recipientId}:pending_messages`, 604800)
PendingExpireSeconds == 604800
\* next() called without an error
NoError == ""

VARIABLES
    \* ---- key directory (MongoDB user document of the target user) ----
    oneTimePreKeys,   \* the target user's stored pool: a set of keyIds
    initialPool,      \* the pool the user published (history, never changes)
    reqPc,            \* per request: "idle" | "read" | "done"
    targetUser,       \* per request: the lean() snapshot of oneTimePreKeys
    oneTimePreKey,    \* per request: the key returned in preKeyBundle
    \* ---- socket server process ----
    connectedUsers,   \* Map userId -> socketIds[]; <<>> stands for "no entry"
    connected,        \* sockets whose 'disconnect' has not fired yet
    socketUser,       \* socket.data.user.userId, fixed at the handshake
    nextSocket,       \* the id the next accepted connection gets
    redisReplies,     \* awaited Redis commands whose reply is outstanding (FIFO)
    \* ---- Redis ----
    pendingMessages,  \* list user:<id>:pending_messages, head first
    pendingTtl,       \* whether that key carries an expiry
    online,           \* string user:<id>:online: "nil" | "true" | "false"
    onlineTtl,        \* whether that key carries an expiry
    lastSeen,         \* user:<id>:last_seen, as the number of times it was stamped
    \* ---- MongoDB user document ----
    userIsOnline,     \* User.isOnline
    restPc,           \* per user: the REST auth call in progress and its position
    restCalls,        \* REST auth calls started
    conversationIds,  \* the conversation ids the routes and hooks computed (history)
    \* ---- clients ----
    inbox,            \* per socket: the events the client received, in order
    \* ---- history ----
    sendLog,          \* message:send events in the order the server handled them
    enqueued,         \* messages pushed to an offline queue
    expired,          \* messages dropped by the expiry of a pending_messages key
    ackLog,           \* message:delivered / message:read events, in the order handled
    typingLog,        \* typing:start / typing:stop events, in the order handled
    \* ---- socket server process, continued ----
    handshake,        \* per socket: socket.handshake.auth.token as presented
    exited,           \* whether the Node process has terminated
    \* ---- time ----
    now,              \* the clock, in seconds since the start
    pendingExpireAt,  \* when the pending_messages key expires; 0 with no expiry
    enqueuedAt,       \* per message: the clock when it was pushed (history)
    \* ---- ChatProvider of each connection's client ----
    activeContact,    \* per socket: the contact whose conversation the client shows
    handled,          \* per socket: for each received event the client has handled,
                      \* the contact whose conversation it showed then
    emitted,          \* per socket: the events the client emitted, in order
    \* ---- encryptionService of each user's client ----
    keyStorage,       \* per user: the KeyStorage singleton
    keyPairs,         \* key pairs generated by nacl.box.keyPair() so far
    nonces,           \* nonces drawn by nacl.randomBytes so far
    publicKeys,       \* per user: the public key the server holds (POST /api/keys)
    sealed,           \* the results of encryptMessage, in order (history)
    lastCall,         \* the last call of the service and its result (history)
    \* ---- useEncryption of each user's client ----
    initialized,      \* per user: the hook's `initialized` state
    sessionKeys,      \* per user: KeyStore.sessionKeys
    sessionKeysMade,  \* session keys generated so far
    hookSealed,        \* the AES-GCM encryptions of the hook, in order (history)
    \* ---- what each user's client sends to the server ----
    secureInitialized, \* per user: the `initialized` state of useSecureMessaging
    sent,             \* the messages sent, by REST and by socket (history)
    \* ---- the hooks and components of each connection's client ----
    typingUsers,      \* per socket: ChatProvider's typingUsers, userId -> boolean
    isTyping,         \* per socket: ChatInterface's `isTyping` state
    typingTimeout,    \* per socket: the pending timeout of typingTimeoutRef, as the
                      \* `isTyping` its callback closed over; NoTimeout when none
    typingEmitted,    \* per socket: the typing events the client emitted (history)
    socketRef,        \* per user: useSocket's socketRef.current; NoSocket for null
    mounted,          \* per user: whether the component that calls useSocket is mounted
    initCalls         \* per user: the initializeKeys calls since the last clearKeys

keyVars == <<oneTimePreKeys, initialPool, reqPc, targetUser, oneTimePreKey>>

socketVars == <<connectedUsers, connected, socketUser, nextSocket, redisReplies>>

redisVars == <<pendingMessages, pendingTtl, online, onlineTtl, lastSeen>>

restVars == <<userIsOnline, restPc, restCalls, conversationIds>>

histVars == <<sendLog, enqueued, expired, ackLog, typingLog>>

clockVars == <<now, pendingExpireAt, enqueuedAt>>

clientVars == <<activeContact, handled, emitted>>

serverVars == <<socketVars, redisVars, restVars, inbox, histVars, handshake, exited,
                clockVars>>

cipherVars == <<keyStorage, keyPairs, nonces, publicKeys, sealed, lastCall>>

sessionVars == <<initialized, sessionKeys, sessionKeysMade, hookSealed>>

sendVars == <<secureInitialized, sent>>

hookVars == <<typingUsers, isTyping, typingTimeout, typingEmitted, socketRef, mounted,
              initCalls>>

\* what no handler of the socket server writes
appVars == <<keyVars, clientVars, exited, cipherVars, sessionVars, sendVars>>

otherVars == <<appVars, hookVars>>

vars == <<keyVars, serverVars, clientVars, cipherVars, sessionVars, sendVars, hookVars>>

Min(a, b) == IF a <= b THEN a ELSE b

(***************************************************************************)
(* GET /api/keys/[userId]                                                  *)
(***************************************************************************)
\* a user who published the one-time prekeys 1 .. k, and no request yet
KeysPublished(k) ==
    /\ oneTimePreKeys = 1 .. k
    /\ initialPool = 1 .. k
    /\ reqPc = [r \in Requests |-> "idle"]
    /\ targetUser = [r \in Requests |-> {}]
    /\ oneTimePreKey = [r \in Requests |-> NoKey]

InitKeys == \E k \in 0 .. MaxPool : KeysPublished(k)

\* const targetUser = await User.findById(userId).select(...).lean()
FindById(r) ==
    /\ reqPc[r] = "idle"
    /\ targetUser' = [targetUser EXCEPT ![r] = oneTimePreKeys]
    /\ reqPc' = [reqPc EXCEPT ![r] = "read"]
    /\ UNCHANGED <<oneTimePreKeys, initialPool, oneTimePreKey>>
    /\ UNCHANGED <<serverVars, clientVars, cipherVars, sessionVars, sendVars,
                   hookVars>>

\* { $pull: { oneTimePreKeys: { keyId } } } applied to the stored document
Pull(pool, keyId) == pool \ {keyId}

\* lines 46-58 and the response: the key is picked from the snapshot read
\* earlier, then pulled from the stored document
IssuePreKey(r) ==
    /\ reqPc[r] = "read"
    /\ IF targetUser[r] # {}
       THEN \E k \in targetUser[r] :
               /\ oneTimePreKey' = [oneTimePreKey EXCEPT ![r] = k]
               /\ oneTimePreKeys' = Pull(oneTimePreKeys, k)
       ELSE /\ oneTimePreKey' = [oneTimePreKey EXCEPT ![r] = NoKey]
            /\ UNCHANGED oneTimePreKeys
    /\ reqPc' = [reqPc EXCEPT ![r] = "done"]
    /\ UNCHANGED <<initialPool, targetUser>>
    /\ UNCHANGED <<serverVars, clientVars, cipherVars, sessionVars, sendVars,
                   hookVars>>

NextKeys ==
    \/ \E r \in Requests : FindById(r)
    \/ \E r \in Requests : IssuePreKey(r)


\* requests that have been answered, and those answered with a key
Answered == {r \in Requests : reqPc[r] = "done"}
Served == {r \in Answered : oneTimePreKey[r] # NoKey}
InFlight == {r \in Requests : reqPc[r] = "read"}

\* C1: N concurrent prekey-bundle requests against a pool of K one-time
\* prekeys: once all N are answered, exactly min(N,K) of them received a
\* one-time prekey, and no key was issued to two requesters.
C1_ExactlyOnceIssuance ==
    InFlight = {} =>
        /\ Cardinality(Served) = Min(Cardinality(Answered), Cardinality(initialPool))
        /\ \A r1, r2 \in Served :
              r1 # r2 => oneTimePreKey[r1] # oneTimePreKey[r2]


(***************************************************************************)
(* initSocketServer: values                                                *)
(***************************************************************************)
\* the elements of a list, in a set
Range(seq) == {seq[i] : i \in 1 .. Len(seq)}

\* new Date(): the server's clock, read as the number of sends handled so far
DateNow(n) == [kind |-> "Date", t |-> n]

\* an envelope whose sender is read from the payload's conversationId
EnvelopeFromPayload(userId, n, conversationId) ==
    [senderId |-> conversationId[1], message |-> n,
     conversationId |-> conversationId, timestamp |-> DateNow(n)]

\* the object literal of lines 150-153 and 160-163; the opaque message string
\* of send number n is n itself
Envelope(userId, n, conversationId) ==
    [senderId |-> userId, message |-> n,
     conversationId |-> conversationId, timestamp |-> DateNow(n)]

\* JSON.stringify([obj]) then JSON.parse: an array holding the object, its
\* Date turned into an ISO string
StringifyParse(obj) ==
    [array |-> TRUE,
     item |-> [obj EXCEPT !.timestamp = [kind |-> "string", t |-> obj.timestamp.t]]]

\* the object itself, as io.to(socketId).emit sends it
Plain(obj) == [array |-> FALSE, item |-> obj]

ReceiveEvent(json) == [type |-> "message:receive", data |-> json]

StatusEvent(messageId, status) ==
    [type |-> "message:status", data |-> [messageId |-> messageId, status |-> status]]

PresenceEvent(type, userId) == [type |-> type, data |-> [userId |-> userId]]

\* Emit, stopping after the first socket of the set
EmitToFirstOnly(box, targets, events) ==
    [s \in SocketIds |->
        IF s \in targets /\ s \in connected /\ (\A o \in targets : s <= o)
        THEN box[s] \o events ELSE box[s]]

\* io.to(socketId).emit / socket.emit: each packet reaches the sockets among
\* `targets` that are still connected, after what they received before
Emit(box, targets, events) ==
    [s \in SocketIds |->
        IF s \in targets /\ s \in connected THEN box[s] \o events ELSE box[s]]

\* connectedUsers.get(recipientId) || []
SocketIdsOf(map, userId) == map[userId]

\* a filter that drops nothing
KeepAll(socketIds, socketId) == socketIds

\* userSocketIds.filter(id => id !== socket.id)
Filter(socketIds, socketId) == SelectSeq(socketIds, LAMBDA id : id # socketId)

\* redis.lpush(key, value): the value becomes the head of the list
Lpush(list, value) == <<value>> \o list

\* Lrange from index 1 instead of 0: the head is left out
LrangeFromOne(list) == IF Len(list) > 0 THEN Tail(list) ELSE list

\* redis.lrange(key, 0, -1): the whole list, head first
Lrange(list) == list

\* redis.del(key): the key is gone
Del(list) == <<>>

\* the message numbers held by a list of stored entries
MessagesIn(list) == {list[i].item.message : i \in 1 .. Len(list)}

(***************************************************************************)
(* encryptionService: values (tweetnacl and tweetnacl-util as it calls     *)
(* them)                                                                   *)
(***************************************************************************)
\* nacl.box.publicKeyLength and nacl.box.secretKeyLength
PublicKeyLength == 32
SecretKeyLength == 32

\* the plaintexts a user may send
Messages == {"hi", "bye"}

\* process.env.NODE_ENV
Environments == {"production", "development"}

\* util.encodeBase64(bytes) is a string, and util.decodeBase64 of it the bytes
EncodeBase64(bytes) == [kind |-> "base64", bytes |-> bytes]

DecodeBase64(string) == string.bytes

\* whether util.decodeBase64 takes the string; it throws otherwise
IsBase64(string) == string.kind = "base64"

\* the bytes of the keys of the key pair number k
PublicKeyOf(k) == [length |-> PublicKeyLength, pair |-> k, half |-> "public"]

SecretKeyOf(k) == [length |-> SecretKeyLength, pair |-> k, half |-> "secret"]

NoBytes == [length |-> 0, pair |-> 0, half |-> "none"]

\* no string: the Map has no entry
Undefined == [kind |-> "undefined", bytes |-> NoBytes]

\* a string that is not Base64, such as the JWK that useEncryption publishes
NotBase64 == [kind |-> "text", bytes |-> NoBytes]

\* the Base64 of a key cut short by one byte
ShortKey ==
    EncodeBase64([length |-> PublicKeyLength - 1, pair |-> 0, half |-> "public"])

\* generateKeyPair: nacl.box.keyPair(), both keys Base64 encoded
GenerateKeyPair(k) ==
    [publicKey |-> EncodeBase64(PublicKeyOf(k)),
     secretKey |-> EncodeBase64(SecretKeyOf(k))]

\* myKeyPair = null
NoKeyPair == [publicKey |-> Undefined, secretKey |-> Undefined]

\* nacl.box.before(publicKey, secretKey), the X25519 agreement: the same for
\* one pair's public key with the other's secret key either way round
BoxBefore(publicKey, secretKey) == {publicKey.pair, secretKey.pair}

\* sharedSecrets.get(userId) is undefined
NoSecret == {}

\* util.decodeUTF8(string) and util.encodeUTF8(bytes)
DecodeUTF8(string) == [utf8 |-> string]

EncodeUTF8(bytes) == bytes.utf8

\* nacl.box.after(message, nonce, sharedSecret): the authenticated box
BoxAfter(message, nonce, sharedSecret) ==
    [plain |-> message, nonce |-> nonce, secret |-> sharedSecret, flipped |-> FALSE]

\* a box with a bit of it flipped
FlipBit(box) == [box EXCEPT !.flipped = TRUE]

\* whether the box is what nacl.box.after made of this nonce and secret
Authentic(box, nonce, sharedSecret) ==
    ~box.flipped /\ box.nonce = nonce /\ box.secret = sharedSecret

\* opening a box without checking its authenticator
OpenUnauthenticated(box, nonce, sharedSecret) ==
    [null |-> FALSE,
     bytes |-> IF Authentic(box, nonce, sharedSecret)
               THEN box.plain ELSE DecodeUTF8("garbage")]

\* nacl.box.open.after(ciphertext, nonce, sharedSecret): null unless the
\* authenticator verifies
BoxOpenAfter(box, nonce, sharedSecret) ==
    IF Authentic(box, nonce, sharedSecret)
    THEN [null |-> FALSE, bytes |-> box.plain]
    ELSE [null |-> TRUE, bytes |-> DecodeUTF8("")]

\* interface EncryptedMessage
EncryptedMessage(box, nonce) ==
    [ciphertext |-> EncodeBase64(box), nonce |-> EncodeBase64(nonce)]

NoMessage ==
    [ciphertext |-> [kind |-> "text", bytes |-> BoxAfter(DecodeUTF8(""), 0, NoSecret)],
     nonce |-> [kind |-> "text", bytes |-> 0]]

\* a return and a throw
Returned(value) == [threw |-> FALSE, value |-> value]

Threw(message) == [threw |-> TRUE, value |-> message]

(***************************************************************************)
(* class KeyStorage                                                        *)
(***************************************************************************)
EmptyStorage ==
    [myKeyPair |-> NoKeyPair,
     contactPublicKeys |-> [u \in Users |-> Undefined],
     sharedSecrets |-> [u \in Users |-> NoSecret]]

\* computeSharedSecret, lines 54-98
ComputeSharedSecret(storage, userId) ==
    LET contactPublicKey == storage.contactPublicKeys[userId]
        myKeyPair == storage.myKeyPair
    IN  IF contactPublicKey = Undefined \/ myKeyPair = NoKeyPair
        THEN storage
        ELSE IF ~IsBase64(contactPublicKey) \/ ~IsBase64(myKeyPair.secretKey)
        THEN storage
        ELSE LET publicKeyBinary == DecodeBase64(contactPublicKey)
                 secretKeyBinary == DecodeBase64(myKeyPair.secretKey)
             IN  IF \/ publicKeyBinary.length # PublicKeyLength
                    \/ secretKeyBinary.length # SecretKeyLength
                 THEN storage
                 ELSE [storage EXCEPT !.sharedSecrets[userId] =
                          BoxBefore(publicKeyBinary, secretKeyBinary)]

\* setContactPublicKey, lines 42-46
SetContactPublicKey(storage, userId, publicKey) ==
    ComputeSharedSecret([storage EXCEPT !.contactPublicKeys[userId] = publicKey],
                        userId)

\* fetchContactPublicKey, lines 179-240: the storage afterwards, whether it
\* threw, and how many key pairs it generated
FetchContactPublicKey(storage, userId, env) ==
    IF storage.contactPublicKeys[userId] # Undefined
    THEN [storage |-> storage, threw |-> FALSE, generated |-> 0]
    ELSE IF publicKeys[userId] # Undefined
    THEN [storage |-> SetContactPublicKey(storage, userId, publicKeys[userId]),
          threw |-> FALSE, generated |-> 0]
    ELSE IF env # "production"
    THEN [storage |-> SetContactPublicKey(storage, userId,
                          GenerateKeyPair(keyPairs + 1).publicKey),
          threw |-> FALSE, generated |-> 1]
    ELSE [storage |-> storage, threw |-> TRUE, generated |-> 0]

\* the whole key pair's secret half as the body
SecretKeyBody(keyPair) == keyPair.secretKey

\* initializeKeys, lines 151-153: JSON.stringify({ publicKey: keyPair.publicKey })
KeysRequestBody(keyPair) == keyPair.publicKey

\* a call of the service, with the secret it worked with and its result
Call(op, by, peer, key, em, secret, result) ==
    [op |-> op, by |-> by, peer |-> peer, key |-> key, em |-> em,
     secret |-> secret, result |-> result]

\* generateSessionKey, part_007 lines 86-100: an AES-GCM key and 12 random
\* bytes of IV, both new
GenerateSessionKey(n) == [key |-> n, iv |-> n]

\* sessionKeys.get(userId) is undefined
NoSessionKey == [key |-> 0, iv |-> 0]

InitCipher ==
    /\ keyStorage = [u \in Users |-> EmptyStorage]
    /\ keyPairs = 0
    /\ nonces = 0
    /\ publicKeys = [u \in Users |-> Undefined]
    /\ sealed = <<>>
    /\ lastCall = Call("none", NoUser, NoUser, Undefined, NoMessage, NoSecret,
                       Returned(""))
    /\ initialized = [u \in Users |-> FALSE]
    /\ sessionKeys = [u \in Users |-> [c \in Users |-> NoSessionKey]]
    /\ sessionKeysMade = 0
    /\ hookSealed = <<>>
    /\ secureInitialized = [u \in Users |-> FALSE]
    /\ sent = {}

\* socketRef.current === null, typingTimeoutRef.current === null
NoSocket == 0
NoTimeout == "none"

\* the hooks and components before their first effect
InitHooks ==
    /\ typingUsers = [s \in SocketIds |-> [u \in Users |-> FALSE]]
    /\ isTyping = [s \in SocketIds |-> FALSE]
    /\ typingTimeout = [s \in SocketIds |-> NoTimeout]
    /\ typingEmitted = [s \in SocketIds |-> <<>>]
    /\ socketRef = [u \in Users |-> NoSocket]
    /\ mounted = [u \in Users |-> FALSE]
    /\ initCalls = [u \in Users |-> <<>>]

(***************************************************************************)
(* initSocketServer: state after construction                              *)
(***************************************************************************)
InitServer ==
    /\ connectedUsers = [u \in Users |-> <<>>]
    /\ connected = {}
    /\ socketUser = [s \in SocketIds |-> NoUser]
    /\ nextSocket = 1
    /\ redisReplies = <<>>
    /\ pendingMessages = [u \in Users |-> <<>>]
    /\ pendingTtl = [u \in Users |-> FALSE]
    /\ online = [u \in Users |-> "nil"]
    /\ onlineTtl = [u \in Users |-> FALSE]
    /\ lastSeen = [u \in Users |-> 0]
    /\ userIsOnline = [u \in Users |-> FALSE]
    /\ restPc = [u \in Users |-> "idle"]
    /\ restCalls = 0
    /\ conversationIds = {}
    /\ inbox = [s \in SocketIds |-> <<>>]
    /\ sendLog = <<>>
    /\ enqueued = {}
    /\ expired = {}
    /\ ackLog = <<>>
    /\ typingLog = <<>>
    /\ handshake = [s \in SocketIds |-> NoToken]
    /\ exited = FALSE
    /\ now = 0
    /\ pendingExpireAt = [u \in Users |-> NoExpiry]
    /\ enqueuedAt = [n \in MsgIds |-> 0]
    /\ activeContact = [s \in SocketIds |-> NoUser]
    /\ handled = [s \in SocketIds |-> <<>>]
    /\ emitted = [s \in SocketIds |-> <<>>]

Init == KeysPublished(MaxPool) /\ InitServer /\ InitCipher /\ InitHooks

(***************************************************************************)
(* io.on('connection'): lines 121-138 and the start of the drain, 228-230  *)
(***************************************************************************)
OnConnection(userId) ==
    /\ nextSocket <= MaxSockets
    /\ LET socketId == nextSocket IN
        /\ nextSocket' = nextSocket + 1
        /\ socketUser' = [socketUser EXCEPT ![socketId] = userId]
        /\ connected' = connected \cup {socketId}
        /\ connectedUsers' =
              [connectedUsers EXCEPT ![userId] = Append(@, socketId)]
        \* redis.set(online, 'true'); redis.expire(online, 3600)
        /\ online' = [online EXCEPT ![userId] = "true"]
        /\ onlineTtl' = [onlineTtl EXCEPT ![userId] = TRUE]
        \* socket.broadcast.emit('user:online', { userId })
        /\ inbox' = Emit(inbox, connected \ {socketId},
                         <<PresenceEvent("user:online", userId)>>)
        \* await redis.lrange(pending_messages, 0, -1)
        /\ redisReplies' = Append(redisReplies,
              [kind |-> "lrange", socketId |-> socketId, userId |-> userId,
               result |-> Lrange(pendingMessages[userId])])
    /\ UNCHANGED <<pendingMessages, pendingTtl, lastSeen, restVars, histVars,
                   clockVars, appVars>>

Connection(userId) == OnConnection(userId) /\ UNCHANGED hookVars

(***************************************************************************)
(* io.use: the authentication middleware, lines 99-119                     *)
(***************************************************************************)
\* what a client may present as socket.handshake.auth.token: nothing, a token
\* signed with the access secret for a user, or one that is not (forged,
\* expired, signed with another secret)
Tokens ==
    {[kind |-> "missing", userId |-> NoUser]}
        \cup [kind : {"signed", "forged"}, userId : Users]

SignedTokens == {token \in Tokens : token.kind = "signed"}

\* the payload is decoded and returned without the signature check
DecodeOnly(token) == [threw |-> FALSE, userId |-> token.userId]

\* verifyAccessToken: the payload of a token that jwtVerify accepts, or a throw
VerifyAccessToken(token) ==
    IF token.kind = "signed"
    THEN [threw |-> FALSE, userId |-> token.userId]
    ELSE [threw |-> TRUE, userId |-> NoUser]

\* the middleware: the message of the error it passes to next(), or NoError
Use(token) ==
    IF token.kind = "missing" THEN "Authentication token missing"
    ELSE IF VerifyAccessToken(token).threw THEN "Authentication failed"
    ELSE NoError

\* a client opens a connection presenting `token`: the middleware runs, and
\* the 'connection' event fires only when it passed no error
OnHandshake(token) ==
    /\ ~exited
    /\ nextSocket <= MaxSockets
    /\ handshake' = [handshake EXCEPT ![nextSocket] = token]
    /\ IF Use(token) = NoError
       THEN OnConnection(VerifyAccessToken(token).userId)
       ELSE /\ nextSocket' = nextSocket + 1
            /\ UNCHANGED <<connectedUsers, connected, socketUser, redisReplies,
                           redisVars, restVars, inbox, histVars, clockVars, appVars>>

Handshake(token) == OnHandshake(token) /\ UNCHANGED hookVars

(***************************************************************************)
(* socket.on('disconnect'): lines 249-268                                  *)
(***************************************************************************)
OnDisconnect(socketId) ==
    /\ socketId \in connected
    /\ LET userId == socketUser[socketId]
           userSocketIds == SocketIdsOf(connectedUsers, userId)
           updatedSocketIds == Filter(userSocketIds, socketId)
       IN
        /\ connected' = connected \ {socketId}
        /\ connectedUsers' = [connectedUsers EXCEPT ![userId] = updatedSocketIds]
        /\ IF Len(updatedSocketIds) > 0
           THEN UNCHANGED <<online, onlineTtl, lastSeen, inbox>>
           ELSE /\ online' = [online EXCEPT ![userId] = "false"]
                /\ onlineTtl' = [onlineTtl EXCEPT ![userId] = FALSE]
                /\ lastSeen' = [lastSeen EXCEPT ![userId] = @ + 1]
                \* socket.broadcast.emit('user:offline', { userId })
                /\ inbox' = Emit(inbox, connected \ {socketId},
                                 <<PresenceEvent("user:offline", userId)>>)
    /\ UNCHANGED <<socketUser, nextSocket, redisReplies, pendingMessages, pendingTtl,
                   restVars, histVars, handshake, clockVars, appVars>>

Disconnect(socketId) == OnDisconnect(socketId) /\ UNCHANGED hookVars

\* the listener of lines 249-268 run once more for a socket whose
\* 'disconnect' has already been handled
DisconnectAgain(socketId) ==
    /\ socketId \notin connected
    /\ socketUser[socketId] # NoUser
    /\ lastSeen[socketUser[socketId]] < MaxStamps
    /\ LET userId == socketUser[socketId]
           userSocketIds == SocketIdsOf(connectedUsers, userId)
           updatedSocketIds == Filter(userSocketIds, socketId)
       IN
        /\ connectedUsers' = [connectedUsers EXCEPT ![userId] = updatedSocketIds]
        /\ IF Len(updatedSocketIds) > 0
           THEN UNCHANGED <<online, onlineTtl, lastSeen, inbox>>
           ELSE /\ online' = [online EXCEPT ![userId] = "false"]
                /\ onlineTtl' = [onlineTtl EXCEPT ![userId] = FALSE]
                /\ lastSeen' = [lastSeen EXCEPT ![userId] = @ + 1]
                /\ inbox' = Emit(inbox, connected \ {socketId},
                                 <<PresenceEvent("user:offline", userId)>>)
    /\ UNCHANGED <<connected, socketUser, nextSocket, redisReplies, pendingMessages,
                   pendingTtl, restVars, histVars, handshake, clockVars, otherVars>>

\* lines 125-138 run once more for a socket that is already in the map
ConnectionAgain(socketId) ==
    /\ socketId \in connected
    /\ LET userId == socketUser[socketId] IN
        /\ Len(connectedUsers[userId]) < MaxHandles
        /\ connectedUsers' =
              [connectedUsers EXCEPT ![userId] = Append(@, socketId)]
        /\ online' = [online EXCEPT ![userId] = "true"]
        /\ onlineTtl' = [onlineTtl EXCEPT ![userId] = TRUE]
        /\ inbox' = Emit(inbox, connected \ {socketId},
                         <<PresenceEvent("user:online", userId)>>)
    /\ UNCHANGED <<connected, socketUser, nextSocket, redisReplies, pendingMessages,
                   pendingTtl, lastSeen, restVars, histVars, handshake, clockVars,
                   otherVars>>

(***************************************************************************)
(* socket.on('message:send'): lines 141-166, up to the await of lpush      *)
(***************************************************************************)
MessageSend(socketId, recipientId, conversationId) ==
    /\ socketId \in connected
    /\ Len(sendLog) < MaxSends
    /\ LET userId == socketUser[socketId]
           n == Len(sendLog) + 1
           recipientSocketIds == SocketIdsOf(connectedUsers, recipientId)
           envelope == Envelope(userId, n, conversationId)
       IN
        /\ sendLog' = Append(sendLog, [senderId |-> userId, recipientId |-> recipientId])
        /\ inbox' = Emit(inbox, Range(recipientSocketIds),
                         <<ReceiveEvent(Plain(envelope))>>)
        /\ IF Len(recipientSocketIds) = 0
           THEN /\ pendingMessages' = [pendingMessages EXCEPT
                      ![recipientId] = Lpush(@, StringifyParse(envelope))]
                /\ redisReplies' = Append(redisReplies,
                      [kind |-> "lpush", userId |-> recipientId])
                /\ enqueued' = enqueued \cup {n}
                /\ enqueuedAt' = [enqueuedAt EXCEPT ![n] = now]
           ELSE UNCHANGED <<pendingMessages, redisReplies, enqueued, enqueuedAt>>
    /\ UNCHANGED <<connectedUsers, connected, socketUser, nextSocket, pendingTtl,
                   online, onlineTtl, lastSeen, restVars, expired, ackLog, typingLog,
                   handshake, now, pendingExpireAt, otherVars>>

\* redis.expire(key, seconds): sets the expiry of a key that exists
Expire(ttl, list) == IF Len(list) > 0 THEN TRUE ELSE ttl

\* the moment that expiry falls due
ExpireAt(at, list, seconds) == IF Len(list) > 0 THEN now + seconds ELSE at

\* line 167, run when the reply to lpush arrives
LpushReply ==
    /\ Len(redisReplies) > 0
    /\ Head(redisReplies).kind = "lpush"
    /\ LET recipientId == Head(redisReplies).userId IN
        /\ pendingTtl' = [pendingTtl EXCEPT
               ![recipientId] = Expire(@, pendingMessages[recipientId])]
        /\ pendingExpireAt' = [pendingExpireAt EXCEPT
               ![recipientId] = ExpireAt(@, pendingMessages[recipientId],
                                         PendingExpireSeconds)]
    /\ redisReplies' = Tail(redisReplies)
    /\ UNCHANGED <<connectedUsers, connected, socketUser, nextSocket, pendingMessages,
                   online, onlineTtl, lastSeen, restVars, inbox, histVars,
                   handshake, now, enqueuedAt, otherVars>>

\* lines 232-245, run when the reply to lrange arrives
LrangeReply ==
    /\ Len(redisReplies) > 0
    /\ Head(redisReplies).kind = "lrange"
    /\ LET reply == Head(redisReplies) IN
        IF Len(reply.result) > 0
        THEN /\ inbox' = Emit(inbox, {reply.socketId},
                    [i \in 1 .. Len(reply.result) |-> ReceiveEvent(reply.result[i])])
             \* await redis.del(pending_messages)
             /\ pendingMessages' = [pendingMessages EXCEPT ![reply.userId] = Del(@)]
             /\ pendingTtl' = [pendingTtl EXCEPT ![reply.userId] = FALSE]
             /\ pendingExpireAt' = [pendingExpireAt EXCEPT ![reply.userId] = NoExpiry]
        ELSE UNCHANGED <<inbox, pendingMessages, pendingTtl, pendingExpireAt>>
    /\ redisReplies' = Tail(redisReplies)
    /\ UNCHANGED <<connectedUsers, connected, socketUser, nextSocket,
                   online, onlineTtl, lastSeen, restVars, histVars,
                   handshake, now, enqueuedAt, otherVars>>

(***************************************************************************)
(* Redis key expiry                                                        *)
(***************************************************************************)
\* the 604800 s set at line 167 run out
PendingKeyExpires(userId) ==
    /\ pendingTtl[userId]
    /\ pendingMessages' = [pendingMessages EXCEPT ![userId] = <<>>]
    /\ pendingTtl' = [pendingTtl EXCEPT ![userId] = FALSE]
    /\ pendingExpireAt' = [pendingExpireAt EXCEPT ![userId] = NoExpiry]
    /\ expired' = expired \cup MessagesIn(pendingMessages[userId])
    /\ UNCHANGED <<socketVars, online, onlineTtl, lastSeen, restVars, inbox,
                   sendLog, enqueued, ackLog, typingLog, handshake, now, enqueuedAt, otherVars>>

\* the 3600 s set at line 135 run out
OnlineKeyExpires(userId) ==
    /\ onlineTtl[userId]
    /\ online' = [online EXCEPT ![userId] = "nil"]
    /\ onlineTtl' = [onlineTtl EXCEPT ![userId] = FALSE]
    /\ UNCHANGED <<socketVars, pendingMessages, pendingTtl, lastSeen, restVars, inbox,
                   histVars, handshake, clockVars, otherVars>>

(***************************************************************************)
(* socket.on('message:delivered') and socket.on('message:read'): 199-225   *)
(***************************************************************************)
MessageDelivered(socketId, messageId, senderId) ==
    /\ socketId \in connected
    /\ Len(ackLog) < MaxAcks
    /\ LET senderSocketIds == SocketIdsOf(connectedUsers, senderId) IN
        inbox' = Emit(inbox, Range(senderSocketIds),
                      <<StatusEvent(messageId, "delivered")>>)
    /\ ackLog' = Append(ackLog, [socketId |-> socketId, messageId |-> messageId,
                                 senderId |-> senderId, status |-> "delivered"])
    /\ UNCHANGED <<socketVars, redisVars, restVars, sendLog, enqueued, expired, typingLog,
                   handshake, clockVars, otherVars>>

MessageRead(socketId, messageId, senderId) ==
    /\ socketId \in connected
    /\ Len(ackLog) < MaxAcks
    /\ LET senderSocketIds == SocketIdsOf(connectedUsers, senderId) IN
        inbox' = Emit(inbox, Range(senderSocketIds),
                      <<StatusEvent(messageId, "read")>>)
    /\ ackLog' = Append(ackLog, [socketId |-> socketId, messageId |-> messageId,
                                 senderId |-> senderId, status |-> "read"])
    /\ UNCHANGED <<socketVars, redisVars, restVars, sendLog, enqueued, expired, typingLog,
                   handshake, clockVars, otherVars>>

(***************************************************************************)
(* socket.on('typing:start') / socket.on('typing:stop'): lines 171-196     *)
(***************************************************************************)
TypingEvent(type, senderId, conversationId) ==
    [type |-> type, data |-> [senderId |-> senderId, conversationId |-> conversationId]]

\* a handler that keeps the event for a recipient who has no connection
TypingQueued(type, socketId, recipientId, conversationId) ==
    /\ socketId \in connected
    /\ Len(typingLog) < MaxTypings
    /\ LET userId == socketUser[socketId]
           recipientSocketIds == SocketIdsOf(connectedUsers, recipientId)
           event == TypingEvent(type, userId, conversationId)
       IN
        /\ inbox' = Emit(inbox, Range(recipientSocketIds), <<event>>)
        /\ pendingMessages' =
              IF Len(recipientSocketIds) = 0
              THEN [pendingMessages EXCEPT ![recipientId] = Lpush(@, Plain(event))]
              ELSE pendingMessages
        /\ typingLog' = Append(typingLog,
              [type |-> type, socketId |-> socketId, recipientId |-> recipientId,
               conversationId |-> conversationId,
               handles |-> Len(recipientSocketIds)])
    /\ UNCHANGED <<socketVars, pendingTtl, online, onlineTtl, lastSeen, restVars,
                   sendLog, enqueued, expired, ackLog, handshake, clockVars,
                   keyVars, clientVars, exited, cipherVars, sessionVars, sendVars>>

\* both listeners: the event goes to each socket of the recipient's entry
Typing(type, socketId, recipientId, conversationId) ==
    /\ socketId \in connected
    /\ Len(typingLog) < MaxTypings
    /\ LET userId == socketUser[socketId]
           recipientSocketIds == SocketIdsOf(connectedUsers, recipientId)
       IN
        /\ inbox' = Emit(inbox, Range(recipientSocketIds),
                         <<TypingEvent(type, userId, conversationId)>>)
        /\ typingLog' = Append(typingLog,
              [type |-> type, socketId |-> socketId, recipientId |-> recipientId,
               conversationId |-> conversationId,
               handles |-> Len(recipientSocketIds)])
    /\ UNCHANGED <<socketVars, redisVars, restVars, sendLog, enqueued, expired,
                   ackLog, handshake, clockVars,
                   keyVars, clientVars, exited, cipherVars, sessionVars, sendVars>>

TypingStart(socketId, recipientId, conversationId) ==
    /\ Typing("typing:start", socketId, recipientId, conversationId)
    /\ UNCHANGED hookVars

TypingStop(socketId, recipientId, conversationId) ==
    /\ Typing("typing:stop", socketId, recipientId, conversationId)
    /\ UNCHANGED hookVars

(***************************************************************************)
(* POST /api/auth/login, lines 66-72, one step per awaited call            *)
(***************************************************************************)
LoginSetOnline(userId) ==
    /\ restPc[userId] = "idle"
    /\ restCalls < MaxRestCalls
    /\ restCalls' = restCalls + 1
    /\ online' = [online EXCEPT ![userId] = "true"]
    /\ onlineTtl' = [onlineTtl EXCEPT ![userId] = FALSE]
    /\ restPc' = [restPc EXCEPT ![userId] = "login:expire"]
    /\ UNCHANGED <<socketVars, pendingMessages, pendingTtl, lastSeen, userIsOnline,
                   inbox, histVars, handshake, clockVars, otherVars,
                   conversationIds>>

LoginExpire(userId) ==
    /\ restPc[userId] = "login:expire"
    /\ onlineTtl' = [onlineTtl EXCEPT ![userId] = (online[userId] # "nil")]
    /\ restPc' = [restPc EXCEPT ![userId] = "login:save"]
    /\ UNCHANGED <<socketVars, pendingMessages, pendingTtl, online, lastSeen,
                   userIsOnline, restCalls, inbox, histVars, handshake, clockVars, otherVars,
                   conversationIds>>

LoginSave(userId) ==
    /\ restPc[userId] = "login:save"
    /\ userIsOnline' = [userIsOnline EXCEPT ![userId] = TRUE]
    /\ restPc' = [restPc EXCEPT ![userId] = "idle"]
    /\ UNCHANGED <<socketVars, redisVars, restCalls, inbox, histVars, handshake, clockVars, otherVars,
                   conversationIds>>

(***************************************************************************)
(* POST /api/auth/logout, lines 12-25, one step per awaited call           *)
(***************************************************************************)
LogoutUpdateUser(userId) ==
    /\ restPc[userId] = "idle"
    /\ restCalls < MaxRestCalls
    /\ restCalls' = restCalls + 1
    /\ userIsOnline' = [userIsOnline EXCEPT ![userId] = FALSE]
    /\ restPc' = [restPc EXCEPT ![userId] = "logout:online"]
    /\ UNCHANGED <<socketVars, redisVars, inbox, histVars, handshake, clockVars, otherVars,
                   conversationIds>>

LogoutSetOnline(userId) ==
    /\ restPc[userId] = "logout:online"
    /\ online' = [online EXCEPT ![userId] = "false"]
    /\ onlineTtl' = [onlineTtl EXCEPT ![userId] = FALSE]
    /\ restPc' = [restPc EXCEPT ![userId] = "logout:last_seen"]
    /\ UNCHANGED <<socketVars, pendingMessages, pendingTtl, lastSeen, userIsOnline,
                   restCalls, inbox, histVars, handshake, clockVars, otherVars,
                   conversationIds>>

LogoutSetLastSeen(userId) ==
    /\ restPc[userId] = "logout:last_seen"
    /\ lastSeen' = [lastSeen EXCEPT ![userId] = @ + 1]
    /\ restPc' = [restPc EXCEPT ![userId] = "idle"]
    /\ UNCHANGED <<socketVars, pendingMessages, pendingTtl, online, onlineTtl,
                   userIsOnline, restCalls, inbox, histVars, handshake, clockVars, otherVars,
                   conversationIds>>

(***************************************************************************)
(* Specifications                                                          *)
(***************************************************************************)
\* const ids = [a, b].sort(); ids.join('_')
\* the order of two user ids as strings
Before(a, b) == a = b \/ (a = "alice" /\ b = "bob")

ConversationId(a, b) == IF Before(a, b) THEN <<a, b>> ELSE <<b, a>>

\* the conversationId a client may put in its payload
ClientConversationIds(userId, recipientId) ==
    {ConversationId(userId, recipientId)}

\* the conversationId a client can put in its payload: any string, here the
\* id of any conversation, its own or not
AnyConversationIds == {ConversationId(a, b) : a, b \in Users}

\* the messageId a client may put in an acknowledgement: the id of a message
\* that exists, or one that does not
AckMessageIds == (1 .. Len(sendLog)) \cup {UnknownMessageId}

NextRouting ==
    \/ \E token \in SignedTokens : Handshake(token)
    \/ \E s \in SocketIds : Disconnect(s)
    \/ \E s \in SocketIds, r \in Users :
          \E c \in ClientConversationIds(socketUser[s], r) : MessageSend(s, r, c)
    \/ LpushReply
    \/ LrangeReply
    \/ \E u \in Users : PendingKeyExpires(u)

\* the socket server's presence, routing and offline queue
Spec == Init /\ [][NextRouting]_vars

NextPresence ==
    \/ \E token \in SignedTokens : Handshake(token)
    \/ \E s \in SocketIds : Disconnect(s)
    \/ LrangeReply
    \/ \E u \in Users : OnlineKeyExpires(u)
    \/ \E u \in Users : LoginSetOnline(u)
    \/ \E u \in Users : LoginExpire(u)
    \/ \E u \in Users : LoginSave(u)
    \/ \E u \in Users : LogoutUpdateUser(u)
    \/ \E u \in Users : LogoutSetOnline(u)
    \/ \E u \in Users : LogoutSetLastSeen(u)

\* the online record and its writers: connections, login, logout, key expiry
SpecPresence == Init /\ [][NextPresence]_vars

NextAck ==
    \/ \E token \in SignedTokens : Handshake(token)
    \/ \E s \in SocketIds : Disconnect(s)
    \/ \E s \in SocketIds, r \in Users :
          \E c \in ClientConversationIds(socketUser[s], r) :
              Len(sendLog) < MaxAckSends /\ MessageSend(s, r, c)
    \/ LpushReply
    \/ LrangeReply
    \/ \E s \in SocketIds, m \in AckMessageIds, a \in Users : MessageDelivered(s, m, a)
    \/ \E s \in SocketIds, m \in AckMessageIds, a \in Users : MessageRead(s, m, a)

\* sends and the relay of delivered / read acknowledgements
SpecAck == Init /\ [][NextAck]_vars

NextAgain ==
    \/ \E token \in SignedTokens : Handshake(token)
    \/ \E s \in SocketIds : Disconnect(s)
    \/ \E s \in SocketIds, r \in Users :
          \E c \in ClientConversationIds(socketUser[s], r) :
              Len(sendLog) < MaxAckSends /\ MessageSend(s, r, c)
    \/ LpushReply
    \/ LrangeReply
    \/ \E s \in SocketIds : DisconnectAgain(s)
    \/ \E s \in SocketIds : ConnectionAgain(s)

\* the connection and disconnect listeners applied to a socket more than once
SpecAgain == Init /\ [][NextAgain]_vars

NextAnyPayload ==
    \/ \E token \in Tokens : Handshake(token)
    \/ \E s \in SocketIds : Disconnect(s)
    \/ \E s \in SocketIds, r \in Users, c \in AnyConversationIds :
          Len(sendLog) < MaxAnySends /\ MessageSend(s, r, c)
    \/ LpushReply
    \/ LrangeReply
    \/ \E s \in SocketIds, r \in Users, c \in AnyConversationIds :
          Len(typingLog) < MaxAnyTypings /\ TypingStart(s, r, c)
    \/ \E s \in SocketIds, r \in Users, c \in AnyConversationIds :
          Len(typingLog) < MaxAnyTypings /\ TypingStop(s, r, c)

\* sends and typing events whose payload is whatever the client chose
SpecAnyPayload == Init /\ [][NextAnyPayload]_vars

NextTyping ==
    \/ \E token \in SignedTokens : Handshake(token)
    \/ \E s \in SocketIds : Disconnect(s)
    \/ \E s \in SocketIds, r \in Users :
          \E c \in ClientConversationIds(socketUser[s], r) :
              Len(sendLog) < MaxTypingSends /\ MessageSend(s, r, c)
    \/ LpushReply
    \/ LrangeReply
    \/ \E s \in SocketIds, r \in Users :
          \E c \in ClientConversationIds(socketUser[s], r) : TypingStart(s, r, c)
    \/ \E s \in SocketIds, r \in Users :
          \E c \in ClientConversationIds(socketUser[s], r) : TypingStop(s, r, c)

\* connections, sends and the typing indicators
SpecTyping == Init /\ [][NextTyping]_vars

(***************************************************************************)
(* Time passes                                                             *)
(***************************************************************************)
ClockStep == PendingExpireSeconds \div StepsPerWindow

\* the pending_messages keys whose expiry has fallen due at time t
DuePending(t) == {u \in Users : pendingTtl[u] /\ pendingExpireAt[u] <= t}

\* ClockStep seconds pass with no Redis command in flight: Redis removes the
\* keys whose expiry fell due, the pending_messages keys set to 604800 s at
\* line 167 and the online keys set to 3600 s at line 135
Advance ==
    /\ now < MaxClockSteps * ClockStep
    /\ redisReplies = <<>>
    /\ now' = now + ClockStep
    /\ LET due == DuePending(now') IN
        /\ pendingMessages' =
              [u \in Users |-> IF u \in due THEN <<>> ELSE pendingMessages[u]]
        /\ pendingTtl' = [u \in Users |-> pendingTtl[u] /\ u \notin due]
        /\ pendingExpireAt' =
              [u \in Users |-> IF u \in due THEN NoExpiry ELSE pendingExpireAt[u]]
        /\ expired' = expired \cup
              UNION {MessagesIn(pendingMessages[u]) : u \in due}
    /\ online' = [u \in Users |-> IF onlineTtl[u] THEN "nil" ELSE online[u]]
    /\ onlineTtl' = [u \in Users |-> FALSE]
    /\ UNCHANGED <<socketVars, lastSeen, restVars, inbox, sendLog, enqueued, ackLog, typingLog,
                   handshake, enqueuedAt, otherVars>>

NextRetention ==
    \/ \E token \in SignedTokens : Handshake(token)
    \/ \E s \in SocketIds : Disconnect(s)
    \/ \E s \in SocketIds, r \in Users :
          \E c \in ClientConversationIds(socketUser[s], r) : MessageSend(s, r, c)
    \/ LpushReply
    \/ LrangeReply
    \/ Advance

\* the socket server and its queues over days
SpecRetention == Init /\ [][NextRetention]_vars

(***************************************************************************)
(* The queue store fails: an awaited Redis command rejects                 *)
(***************************************************************************)
\* what Node does with a rejected promise that nothing handles, by its
\* --unhandled-rejections mode: "throw" (the default since Node 15) raises an
\* uncaught exception, "warn" prints a warning
RejectionModes == {"throw", "warn"}

\* the process ends with the uncaught exception: every connection closes and
\* the in-memory map is gone with the pending continuations
ProcessExits ==
    /\ exited' = TRUE
    /\ connected' = {}
    /\ connectedUsers' = [u \in Users |-> <<>>]
    /\ redisReplies' = <<>>

\* the rejection of the command at the head of the replies: the async
\* function that awaited it (the message:send listener, lines 141-169, or the
\* drain, lines 228-246) has no catch around the await, so its promise
\* rejects, and nothing is attached to that promise
UnhandledRejection(mode) ==
    IF mode = "throw"
    THEN ProcessExits
    ELSE /\ redisReplies' = Tail(redisReplies)
         /\ UNCHANGED <<exited, connected, connectedUsers>>

\* message:send for a recipient without sockets, Redis answering lpush with
\* an error: nothing is stored
MessageSendFails(socketId, recipientId) ==
    /\ socketId \in connected
    /\ Len(sendLog) < MaxSends
    /\ Len(SocketIdsOf(connectedUsers, recipientId)) = 0
    /\ sendLog' = Append(sendLog, [senderId |-> socketUser[socketId],
                                   recipientId |-> recipientId])
    /\ redisReplies' = Append(redisReplies, [kind |-> "lpush error", userId |-> recipientId])
    /\ UNCHANGED <<connectedUsers, connected, socketUser, nextSocket, redisVars,
                   restVars, inbox, enqueued, expired, ackLog, typingLog,
                   handshake, clockVars, otherVars>>

\* line 166 throws in the listener
LpushRejected(mode) ==
    /\ Len(redisReplies) > 0
    /\ Head(redisReplies).kind = "lpush error"
    /\ UnhandledRejection(mode)
    /\ UNCHANGED <<socketUser, nextSocket, redisVars, restVars, inbox, histVars,
                   handshake, clockVars, keyVars, clientVars, cipherVars,
                   sessionVars, sendVars,
                   hookVars>>

\* line 230 throws in the drain: Redis answered lrange with an error
LrangeRejected(mode) ==
    /\ Len(redisReplies) > 0
    /\ Head(redisReplies).kind = "lrange"
    /\ UnhandledRejection(mode)
    /\ UNCHANGED <<socketUser, nextSocket, redisVars, restVars, inbox, histVars,
                   handshake, clockVars, keyVars, clientVars, cipherVars,
                   sessionVars, sendVars,
                   hookVars>>

NextFault ==
    \/ \E token \in SignedTokens : Handshake(token)
    \/ \E s \in SocketIds : Disconnect(s)
    \/ \E s \in SocketIds, r \in Users :
          \E c \in ClientConversationIds(socketUser[s], r) : MessageSend(s, r, c)
    \/ LpushReply
    \/ LrangeReply
    \/ \E s \in SocketIds, r \in Users : MessageSendFails(s, r)
    \/ \E mode \in RejectionModes : LpushRejected(mode)
    \/ \E mode \in RejectionModes : LrangeRejected(mode)

\* the socket server with a queue store that may answer with an error
SpecFault == Init /\ [][NextFault]_vars

(***************************************************************************)
(* ChatProvider and useSocket: the client of one connection                *)
(***************************************************************************)
\* `temp-${Date.now()}`: an id that no stored message carries
TempId(t) == 0 - (t + 1)

\* the contacts of a user
Contacts(userId) == Users \ {userId}

\* socketRef.current.emit('message:delivered' | 'message:read', {...})
AckEvent(type, messageId, senderId) ==
    [type |-> type, messageId |-> messageId, senderId |-> senderId]

\* handleReceiveMessage, page.tsx lines 448-511: what the client of `userId`
\* emits for the payload of one message:receive. An array has no senderId,
\* message or conversationId to destructure, so no contact is found.
HandleReceiveMessage(userId, data, contact, isConnected) ==
    IF data.array \/ data.item.senderId \notin Contacts(userId)
    THEN <<>>
    ELSE LET senderId == data.item.senderId
             id == TempId(now)
         IN  (IF isConnected
              THEN <<AckEvent("message:delivered", id, senderId)>> ELSE <<>>)
             \o (IF /\ contact # NoUser
                     /\ ConversationId(userId, contact) = data.item.conversationId
                     /\ isConnected
                  THEN <<AckEvent("message:read", id, senderId)>> ELSE <<>>)

\* setActiveContact(contact)
SetActiveContact(socketId, contact) ==
    /\ socketUser[socketId] # NoUser
    /\ contact \in Contacts(socketUser[socketId]) \cup {NoUser}
    /\ contact # activeContact[socketId]
    /\ activeContact' = [activeContact EXCEPT ![socketId] = contact]
    /\ UNCHANGED <<keyVars, serverVars, handled, emitted, cipherVars, sessionVars,
                   sendVars,
                   hookVars>>

\* handleTypingStart / handleTypingStop, page.tsx lines 514-526: typingUsers
\* after the client handled one event
HandleTypingEvent(typing, event) ==
    IF event.type = "typing:start" THEN [typing EXCEPT ![event.data.senderId] = TRUE]
    ELSE IF event.type = "typing:stop" THEN [typing EXCEPT ![event.data.senderId] = FALSE]
    ELSE typing

\* the client runs its listener for the next event it received
HandleEvent(socketId) ==
    /\ Len(handled[socketId]) < Len(inbox[socketId])
    /\ LET event == inbox[socketId][Len(handled[socketId]) + 1] IN
        /\ handled' = [handled EXCEPT ![socketId] = Append(@, activeContact[socketId])]
        /\ emitted' = [emitted EXCEPT ![socketId] =
              IF event.type = "message:receive"
              THEN @ \o HandleReceiveMessage(socketUser[socketId], event.data,
                                             activeContact[socketId],
                                             socketId \in connected)
              ELSE @]
        /\ typingUsers' = [typingUsers EXCEPT ![socketId] = HandleTypingEvent(@, event)]
    /\ UNCHANGED <<keyVars, serverVars, activeContact, cipherVars, sessionVars,
                   sendVars, isTyping, typingTimeout, typingEmitted, socketRef,
                   mounted, initCalls>>

(***************************************************************************)
(* useSocket: connect, disconnect and the effect, lines 49-97              *)
(***************************************************************************)
\* what useAuth may hand the hook of `user` as accessToken: null, or a token
\* issued for that user that the server accepts or no longer accepts
AccessTokens(user) ==
    {token \in Tokens : token.kind = "missing" \/ token.userId = user}

\* connect, lines 49-79: without a token nothing; otherwise io(...) opens a
\* connection that presents the token and the ref is pointed at it, whatever
\* it held before
Connect(user, accessToken) ==
    IF accessToken.kind = "missing"
    THEN UNCHANGED <<serverVars, appVars, socketRef>>
    ELSE /\ OnHandshake(accessToken)
         /\ socketRef' = [socketRef EXCEPT ![user] = nextSocket]

\* disconnect, lines 81-87: the socket the ref holds is closed, which runs the
\* server's 'disconnect' listener if the server had accepted it
DisconnectRef(user) ==
    IF socketRef[user] = NoSocket
    THEN UNCHANGED <<serverVars, appVars, socketRef>>
    ELSE /\ IF socketRef[user] \in connected
            THEN OnDisconnect(socketRef[user])
            ELSE UNCHANGED <<serverVars, appVars>>
         /\ socketRef' = [socketRef EXCEPT ![user] = NoSocket]

\* the effect of lines 89-97 when the component mounts
UseSocketMount(user, accessToken) ==
    /\ ~mounted[user]
    /\ mounted' = [mounted EXCEPT ![user] = TRUE]
    /\ IF accessToken.kind # "missing" /\ socketRef[user] = NoSocket
       THEN Connect(user, accessToken)
       ELSE UNCHANGED <<serverVars, appVars, socketRef>>
    /\ UNCHANGED <<typingUsers, isTyping, typingTimeout, typingEmitted, initCalls>>

\* the cleanup of the effect when the component unmounts
UseSocketUnmount(user) ==
    /\ mounted[user]
    /\ mounted' = [mounted EXCEPT ![user] = FALSE]
    /\ DisconnectRef(user)
    /\ UNCHANGED <<typingUsers, isTyping, typingTimeout, typingEmitted, initCalls>>

\* the component calls the connect the hook returned
UseSocketConnect(user, accessToken) ==
    /\ mounted[user]
    /\ Connect(user, accessToken)
    /\ UNCHANGED <<typingUsers, isTyping, typingTimeout, typingEmitted, mounted,
                   initCalls>>

\* the component calls the disconnect the hook returned
UseSocketDisconnect(user) ==
    /\ mounted[user]
    /\ DisconnectRef(user)
    /\ UNCHANGED <<typingUsers, isTyping, typingTimeout, typingEmitted, mounted,
                   initCalls>>

NextUseSocket ==
    \/ \E u \in Users : \E t \in AccessTokens(u) : UseSocketMount(u, t)
    \/ \E u \in Users : UseSocketUnmount(u)
    \/ \E u \in Users : \E t \in AccessTokens(u) : UseSocketConnect(u, t)
    \/ \E u \in Users : UseSocketDisconnect(u)
    \/ LrangeReply

\* every connection is one a useSocket instance opened, one instance a user
SpecUseSocket == Init /\ [][NextUseSocket]_vars

(***************************************************************************)
(* ChatInterface: the typing indicator of the client that types            *)
(***************************************************************************)
\* socket.startTyping / socket.stopTyping behind ChatProvider's startTyping /
\* stopTyping (page.tsx lines 430-440): the events emitted for one call
EmitTyping(socketId, type) ==
    IF activeContact[socketId] # NoUser /\ socketId \in connected
    THEN <<[type |-> type, recipientId |-> activeContact[socketId]]>>
    ELSE <<>>

\* handleStopTyping, lines 72-77, as created in a render whose `isTyping` was
\* closedOver
HandleStopTyping(socketId, closedOver) ==
    IF closedOver
    THEN /\ isTyping' = [isTyping EXCEPT ![socketId] = FALSE]
         /\ typingEmitted' = [typingEmitted EXCEPT
               ![socketId] = @ \o EmitTyping(socketId, "typing:stop")]
    ELSE UNCHANGED <<isTyping, typingEmitted>>

\* the string that stands for a boolean in typingTimeout
Captured(b) == IF b THEN "true" ELSE "false"

\* handleTyping, lines 56-70, on a keystroke: the handler is the one of the
\* latest render, so the `isTyping` it and its timeout's callback read is the
\* state as it is when the keystroke arrives
HandleTyping(socketId) ==
    /\ activeContact[socketId] # NoUser
    /\ Len(typingEmitted[socketId]) + 2 <= MaxTypingEmitted
    /\ IF ~isTyping[socketId]
       THEN /\ isTyping' = [isTyping EXCEPT ![socketId] = TRUE]
            /\ typingEmitted' = [typingEmitted EXCEPT
                  ![socketId] = @ \o EmitTyping(socketId, "typing:start")]
       ELSE UNCHANGED <<isTyping, typingEmitted>>
    \* clearTimeout of the pending one, then setTimeout(..., 1500)
    /\ typingTimeout' = [typingTimeout EXCEPT ![socketId] = Captured(isTyping[socketId])]
    /\ UNCHANGED <<keyVars, serverVars, clientVars, cipherVars, sessionVars, sendVars,
                   typingUsers, socketRef, mounted, initCalls>>

\* the callback of the timeout, lines 67-69, 1.5 s after the last keystroke
TypingTimeoutFires(socketId) ==
    /\ typingTimeout[socketId] # NoTimeout
    /\ HandleStopTyping(socketId, typingTimeout[socketId] = "true")
    /\ typingTimeout' = [typingTimeout EXCEPT ![socketId] = NoTimeout]
    /\ UNCHANGED <<keyVars, serverVars, clientVars, cipherVars, sessionVars, sendVars,
                   typingUsers, socketRef, mounted, initCalls>>

\* sendMessageAsync, lines 31-49, started by a click or Enter in the latest
\* render: when encryption and sending succeed it calls handleStopTyping, when
\* one of them throws it does not
SendMessageAsync(socketId, ok) ==
    /\ activeContact[socketId] # NoUser
    /\ isTyping[socketId]
    /\ IF ok
       THEN HandleStopTyping(socketId, isTyping[socketId])
       ELSE UNCHANGED <<isTyping, typingEmitted>>
    /\ UNCHANGED <<keyVars, serverVars, clientVars, cipherVars, sessionVars, sendVars,
                   typingUsers, typingTimeout, socketRef, mounted, initCalls>>

NextComposer ==
    \/ \E token \in SignedTokens : Handshake(token)
    \/ \E s \in SocketIds : Disconnect(s)
    \/ LrangeReply
    \/ \E s \in SocketIds, contact \in Users \cup {NoUser} : SetActiveContact(s, contact)
    \/ \E s \in SocketIds : HandleTyping(s)
    \/ \E s \in SocketIds : TypingTimeoutFires(s)
    \/ \E s \in SocketIds, ok \in BOOLEAN : SendMessageAsync(s, ok)

\* the client that types. A timeout that was set fires; nothing obliges the
\* user to press another key or to send.
SpecComposer ==
    Init /\ [][NextComposer]_vars /\ \A s \in SocketIds : WF_vars(TypingTimeoutFires(s))

\* how many of the events a client emitted the server has handled
Relayed(socketId) ==
    Cardinality({i \in 1 .. Len(ackLog) : ackLog[i].socketId = socketId})

\* whether the next event of the client that the server handles is of `type`
NextEmitted(socketId, type) ==
    /\ Relayed(socketId) < Len(emitted[socketId])
    /\ emitted[socketId][Relayed(socketId) + 1].type = type

NextEndToEnd ==
    \/ \E token \in SignedTokens : Handshake(token)
    \/ \E s \in SocketIds : Disconnect(s)
    \/ \E s \in SocketIds, r \in Users :
          \E c \in ClientConversationIds(socketUser[s], r) :
              Len(sendLog) < MaxAckSends /\ MessageSend(s, r, c)
    \/ LpushReply
    \/ LrangeReply
    \/ \E s \in SocketIds, contact \in Users \cup {NoUser} : SetActiveContact(s, contact)
    \/ \E s \in SocketIds : HandleEvent(s)
    \/ \E s \in SocketIds :
          /\ NextEmitted(s, "message:delivered")
          /\ LET e == emitted[s][Relayed(s) + 1] IN
                MessageDelivered(s, e.messageId, e.senderId)
    \/ \E s \in SocketIds :
          /\ NextEmitted(s, "message:read")
          /\ LET e == emitted[s][Relayed(s) + 1] IN
                MessageRead(s, e.messageId, e.senderId)

\* sender, server and recipient together: the clients acknowledge what they
\* receive as ChatProvider does
SpecEndToEnd == Init /\ [][NextEndToEnd]_vars

NextIndicator ==
    \/ \E token \in SignedTokens : Handshake(token)
    \/ \E s \in SocketIds : Disconnect(s)
    \/ LrangeReply
    \/ \E s \in SocketIds : \E r \in Contacts(socketUser[s]) :
          \E c \in ClientConversationIds(socketUser[s], r) : TypingStart(s, r, c)
    \/ \E s \in SocketIds : \E r \in Contacts(socketUser[s]) :
          \E c \in ClientConversationIds(socketUser[s], r) : TypingStop(s, r, c)
    \/ \E s \in SocketIds : HandleEvent(s)

\* the typing indicator a client shows. The event loop of a client runs the
\* listener of every event it received; nothing obliges a peer to type, to
\* stop or to stay connected.
SpecIndicator ==
    Init /\ [][NextIndicator]_vars /\ \A s \in SocketIds : WF_vars(HandleEvent(s))

(***************************************************************************)
(* encryptionService: the calls                                            *)
(***************************************************************************)
\* initializeKeys, lines 132-169: the pair is generated and stored, and its
\* public key posted to the server
GenerateAndPost(user) ==
    /\ keyPairs < MaxKeyPairs
    /\ LET keyPair == GenerateKeyPair(keyPairs + 1) IN
        /\ keyStorage' = [keyStorage EXCEPT ![user].myKeyPair = keyPair]
        /\ publicKeys' = [publicKeys EXCEPT ![user] = KeysRequestBody(keyPair)]
    /\ keyPairs' = keyPairs + 1

\* initializeKeys called with no key pair in the storage
InitializeKeys(user) ==
    /\ keyStorage[user].myKeyPair = NoKeyPair
    /\ GenerateAndPost(user)
    /\ UNCHANGED <<nonces, sealed, lastCall, keyVars, serverVars, clientVars,
                   sessionVars, secureInitialized, sent,
                   hookVars>>

\* the strings a caller may pass as a public key
KeyStrings ==
    {GenerateKeyPair(k).publicKey : k \in 1 .. keyPairs} \cup {ShortKey, NotBase64}

\* storeContactPublicKey, lines 172-176
StoreContactPublicKey(user, userId, publicKey) ==
    /\ keyStorage' = [keyStorage EXCEPT
          ![user] = SetContactPublicKey(@, userId, publicKey)]
    /\ lastCall' = Call("storeContactPublicKey", user, userId, publicKey, NoMessage,
                        NoSecret, Returned(""))
    /\ UNCHANGED <<keyPairs, nonces, publicKeys, sealed, keyVars, serverVars,
                   clientVars, sessionVars, sendVars,
                   hookVars>>

\* clearKeys, lines 341-345
ClearKeys(user) ==
    /\ keyStorage[user] # EmptyStorage
    /\ keyStorage' = [keyStorage EXCEPT ![user] = EmptyStorage]
    \* the calls made so far are no longer calls since the last clearKeys
    /\ initCalls' = [initCalls EXCEPT
          ![user] = [i \in 1 .. Len(@) |-> [@[i] EXCEPT !.cleared = TRUE]]]
    /\ UNCHANGED <<keyPairs, nonces, publicKeys, sealed, lastCall, keyVars,
                   serverVars, clientVars, sessionVars, sendVars,
                   typingUsers, isTyping, typingTimeout, typingEmitted, socketRef,
                   mounted>>

\* a call that generates a pair whatever the storage holds
AlwaysGenerate(storage, fresh) == fresh

\* lines 133-145: the pair of the storage, or a new one when it has none
ExistingOrGenerated(storage, fresh) ==
    IF storage.myKeyPair # NoKeyPair THEN storage.myKeyPair ELSE fresh

\* initializeKeys up to its first await, lines 132-149: the pair it will
\* return is fixed here; a call that generated one goes on to post it
InitializeKeysCall(user) ==
    /\ Len(initCalls[user]) < MaxInitCalls
    /\ LET keyPair == ExistingOrGenerated(keyStorage[user],
                                          GenerateKeyPair(keyPairs + 1))
           generated == keyPair # keyStorage[user].myKeyPair
       IN
        /\ generated => keyPairs < MaxKeyPairs
        /\ keyPairs' = IF generated THEN keyPairs + 1 ELSE keyPairs
        /\ keyStorage' = [keyStorage EXCEPT ![user].myKeyPair = keyPair]
        /\ initCalls' = [initCalls EXCEPT ![user] = Append(@,
              [pc |-> IF generated THEN "fetch" ELSE "done", keyPair |-> keyPair,
               generated |-> generated, cleared |-> FALSE])]
    /\ UNCHANGED <<nonces, publicKeys, sealed, lastCall, keyVars, serverVars,
                   clientVars, sessionVars, sendVars, typingUsers, isTyping,
                   typingTimeout, typingEmitted, socketRef, mounted>>

\* the rest of the call, lines 149-168: the POST of the public key resolves,
\* saved or not, and the call returns its pair
InitializeKeysFetched(user, i, ok) ==
    /\ i \in 1 .. Len(initCalls[user])
    /\ initCalls[user][i].pc = "fetch"
    /\ publicKeys' = IF ok
                     THEN [publicKeys EXCEPT
                             ![user] = KeysRequestBody(initCalls[user][i].keyPair)]
                     ELSE publicKeys
    /\ initCalls' = [initCalls EXCEPT ![user][i].pc = "done"]
    /\ UNCHANGED <<keyStorage, keyPairs, nonces, sealed, lastCall, keyVars,
                   serverVars, clientVars, sessionVars, sendVars, typingUsers,
                   isTyping, typingTimeout, typingEmitted, socketRef, mounted>>

\* encryptMessage, lines 243-277
Encrypt(user, userId, message, env) ==
    /\ nonces < MaxEncrypts
    /\ LET fetched == FetchContactPublicKey(keyStorage[user], userId, env)
           sharedSecret == fetched.storage.sharedSecrets[userId]
           nonce == nonces + 1
           encrypted == EncryptedMessage(
                            BoxAfter(DecodeUTF8(message), nonce, sharedSecret), nonce)
       IN
        /\ keyPairs + fetched.generated <= MaxKeyPairs
        /\ keyPairs' = keyPairs + fetched.generated
        /\ keyStorage' = [keyStorage EXCEPT ![user] = fetched.storage]
        /\ IF fetched.threw
           THEN /\ lastCall' = Call("encryptMessage", user, userId, Undefined, NoMessage,
                                    NoSecret, Threw("Failed to fetch public key"))
                /\ UNCHANGED <<nonces, sealed>>
           ELSE IF sharedSecret = NoSecret
           THEN /\ lastCall' = Call("encryptMessage", user, userId, Undefined, NoMessage,
                                    NoSecret,
                                    Threw("No shared secret available for this contact"))
                /\ UNCHANGED <<nonces, sealed>>
           ELSE /\ nonces' = nonce
                /\ sealed' = Append(sealed, [from |-> user, to |-> userId,
                                             message |-> encrypted])
                /\ lastCall' = Call("encryptMessage", user, userId, Undefined, encrypted,
                                    sharedSecret, Returned(""))
    /\ UNCHANGED <<publicKeys, keyVars, serverVars, clientVars, sessionVars,
                   hookVars>>

\* encryptMessage called on its own
EncryptMessage(user, userId, message, env) ==
    /\ Encrypt(user, userId, message, env)
    /\ UNCHANGED <<secureInitialized, sent>>

\* decryptMessage lines 297-313: from the decoding to the return
Open(encryptedMessage, sharedSecret) ==
    IF ~IsBase64(encryptedMessage.ciphertext) \/ ~IsBase64(encryptedMessage.nonce)
    THEN Threw("Failed to decrypt message")
    ELSE LET ciphertext == DecodeBase64(encryptedMessage.ciphertext)
             nonce == DecodeBase64(encryptedMessage.nonce)
             decrypted == BoxOpenAfter(ciphertext, nonce, sharedSecret)
         IN  IF decrypted.null
             THEN Threw("Failed to decrypt message")
             ELSE Returned(EncodeUTF8(decrypted.bytes))

\* what may reach a recipient in place of an encrypted message: the message,
\* or it with a bit of the ciphertext flipped, with another nonce, or with a
\* ciphertext that is no Base64
Variants(encryptedMessage) ==
    {encryptedMessage,
     [encryptedMessage EXCEPT !.ciphertext = EncodeBase64(FlipBit(DecodeBase64(@)))],
     [encryptedMessage EXCEPT !.nonce = EncodeBase64(DecodeBase64(@) + MaxEncrypts)],
     [encryptedMessage EXCEPT !.ciphertext = [@ EXCEPT !.kind = "text"]]}

Receivable == UNION {Variants(sealed[i].message) : i \in 1 .. Len(sealed)}

\* decryptMessage, lines 280-314
DecryptMessage(user, userId, encryptedMessage, env) ==
    /\ LET fetched == FetchContactPublicKey(keyStorage[user], userId, env)
           sharedSecret == fetched.storage.sharedSecrets[userId]
       IN
        /\ keyPairs + fetched.generated <= MaxKeyPairs
        /\ keyPairs' = keyPairs + fetched.generated
        /\ keyStorage' = [keyStorage EXCEPT ![user] = fetched.storage]
        /\ lastCall' = Call("decryptMessage", user, userId, Undefined, encryptedMessage,
                            sharedSecret,
                            IF fetched.threw THEN Threw("Failed to fetch public key")
                            ELSE IF sharedSecret = NoSecret
                            THEN Threw("No shared secret available for this contact")
                            ELSE Open(encryptedMessage, sharedSecret))
    /\ UNCHANGED <<nonces, publicKeys, sealed, keyVars, serverVars, clientVars,
                   sessionVars, secureInitialized, sent,
                   hookVars>>

\* processMessage, lines 329-338, around the result of decryptMessage
ProcessMessage(result) ==
    IF result.threw THEN Threw("Invalid message format") ELSE result

NextCipher ==
    \/ \E user \in Users : InitializeKeys(user)
    \/ \E user \in Users : \E userId \in Contacts(user) : \E publicKey \in KeyStrings :
          StoreContactPublicKey(user, userId, publicKey)
    \/ \E user \in Users : ClearKeys(user)
    \/ \E user \in Users : \E userId \in Contacts(user) :
          \E message \in Messages, env \in Environments :
              EncryptMessage(user, userId, message, env)
    \/ \E user \in Users : \E userId \in Contacts(user) :
          \E encryptedMessage \in Receivable, env \in Environments :
              DecryptMessage(user, userId, encryptedMessage, env)

(***************************************************************************)
(* useEncryption: the hook's session keys                                  *)
(***************************************************************************)
\* initializeEncryption, lines 128-154, up to setInitialized(true)
InitializeEncryption(user) ==
    /\ ~initialized[user]
    /\ initialized' = [initialized EXCEPT ![user] = TRUE]
    /\ UNCHANGED <<sessionKeys, sessionKeysMade, hookSealed, keyVars, serverVars,
                   clientVars, cipherVars, secureInitialized, sent,
                   hookVars>>

\* ensureSessionKey, lines 181-194: the key stored for the user, generated
\* when there is none
EnsureSessionKey(keys, userId) ==
    IF keys[userId] = NoSessionKey
    THEN GenerateSessionKey(sessionKeysMade + 1)
    ELSE keys[userId]

\* window.crypto.subtle.encrypt({ name: 'AES-GCM', iv }, cryptoKey, data)
AesGcmEncrypt(key, iv, data) == [key |-> key, iv |-> iv, data |-> data]

\* encryptMessage of the hook, lines 197-241
HookEncrypt(user, userId, message) ==
    /\ initialized[user]
    /\ Len(hookSealed) < MaxHookEncrypts
    /\ LET sessionKey == EnsureSessionKey(sessionKeys[user], userId) IN
        /\ sessionKeys' = [sessionKeys EXCEPT ![user][userId] = sessionKey]
        /\ sessionKeysMade' =
              IF sessionKeys[user][userId] = NoSessionKey
              THEN sessionKeysMade + 1 ELSE sessionKeysMade
        /\ hookSealed' = Append(hookSealed,
              AesGcmEncrypt(sessionKey.key, sessionKey.iv, message))
    /\ UNCHANGED <<initialized, keyVars, serverVars, clientVars, cipherVars,
                   hookVars>>

\* encryptMessage of the hook called on its own
HookEncryptMessage(user, userId, message) ==
    /\ HookEncrypt(user, userId, message)
    /\ UNCHANGED sendVars

NextSession ==
    \/ \E user \in Users : InitializeKeys(user)
    \/ \E user \in Users : \E userId \in Contacts(user) :
          \E message \in Messages, env \in Environments :
              EncryptMessage(user, userId, message, env)
    \/ \E user \in Users : InitializeEncryption(user)
    \/ \E user \in Users : \E userId \in Contacts(user) : \E message \in Messages :
          HookEncryptMessage(user, userId, message)

(***************************************************************************)
(* ChatInterface and ChatProvider: sending a message                        *)
(***************************************************************************)
\* the hooks whose encryptMessage a component may take
Hooks == {"useEncryption", "useSecureMessaging"}

\* a message content: the text itself, or the JSON of the index-th result of
\* the hook's or of the service's encryption
Text(message) == [encryptedBy |-> "none", text |-> message, index |-> 0]

Json(encryptedBy, index) == [encryptedBy |-> encryptedBy, text |-> "", index |-> index]

\* ChatProvider.sendMessage, page.tsx lines 324-404: the content goes out in
\* the POST of the message and, when the socket is connected, in the
\* message:send event
Transmissions(content, isConnected) ==
    {[channel |-> c, content |-> content] :
        c \in {"POST /api/messages"} \cup
              (IF isConnected THEN {"message:send"} ELSE {})}

\* useSecureMessaging, lines 13-31: initializeKeys, then setInitialized(true)
InitEncryption(user) ==
    /\ ~secureInitialized[user]
    /\ IF keyStorage[user].myKeyPair = NoKeyPair
       THEN GenerateAndPost(user)
       ELSE UNCHANGED <<keyStorage, publicKeys, keyPairs>>
    /\ secureInitialized' = [secureInitialized EXCEPT ![user] = TRUE]
    /\ UNCHANGED <<nonces, sealed, lastCall, keyVars, serverVars, clientVars,
                   sessionVars, sent,
                   hookVars>>

\* handleSendMessage of ChatInterface, lines 24-53, with useEncryption: the
\* hook's encryptMessage (which throws until the hook is initialized), then
\* sendMessage of what it returned
SendWithUseEncryption(user, userId, message, isConnected) ==
    /\ HookEncrypt(user, userId, message)
    /\ sent' = sent \cup
          Transmissions(Json("useEncryption", Len(hookSealed) + 1),
                        isConnected)
    /\ UNCHANGED secureInitialized

\* useSecureMessaging.encryptMessage, lines 34-47, then sendMessage of what it
\* returned: the message itself until the hook is initialized, the JSON of
\* prepareMessage after, and nothing when that throws
SendWithUseSecureMessaging(user, userId, message, env, isConnected) ==
    IF ~secureInitialized[user]
    THEN /\ sent' = sent \cup Transmissions(Text(message), isConnected)
         /\ UNCHANGED <<keyVars, serverVars, clientVars, cipherVars, sessionVars,
                        secureInitialized,
                   hookVars>>
    ELSE /\ Encrypt(user, userId, message, env)
         /\ sent' = IF lastCall'.result.threw
                    THEN sent
                    ELSE sent \cup
                         Transmissions(Json("useSecureMessaging", Len(sealed) + 1),
                                       isConnected)
         /\ UNCHANGED secureInitialized

HandleSendMessage(user, userId, message, hook, env, isConnected) ==
    IF hook = "useEncryption"
    THEN SendWithUseEncryption(user, userId, message, isConnected)
    ELSE SendWithUseSecureMessaging(user, userId, message, env, isConnected)

NextClient ==
    \/ \E user \in Users : InitEncryption(user)
    \/ \E user \in Users : InitializeEncryption(user)
    \/ \E user \in Users : \E userId \in Contacts(user) :
          \E message \in Messages, hook \in Hooks, env \in Environments,
             isConnected \in BOOLEAN :
              HandleSendMessage(user, userId, message, hook, env, isConnected)

\* what two users' clients send to the server
SpecClient == Init /\ [][NextClient]_vars

NextSecure ==
    \/ \E u \in Users : InitEncryption(u)
    \/ \E u \in Users : ClearKeys(u)
    \/ \E u \in Users, c \in Users, k \in KeyStrings : StoreContactPublicKey(u, c, k)

\* useSecureMessaging next to the service's clearKeys and storeContactPublicKey
SpecSecure == Init /\ [][NextSecure]_vars

(***************************************************************************)
(* The conversation id of two users, where it is computed                  *)
(***************************************************************************)
\* the code units of "A", "a" and "b", and of the "_" of join('_')
IdChars == {65, 97, 98}

Underscore == 95

\* strings, as sequences of code units
IdStrings == UNION {[1 .. n -> IdChars] : n \in 1 .. MaxIdLength}

\* ObjectId.toString(): lower-case hexadecimal
ObjectIdStrings == {s \in IdStrings : \A i \in 1 .. Len(s) : s[i] # 65}

\* the default order of Array.prototype.sort: by UTF-16 code units, a proper
\* prefix first
RECURSIVE CodeUnitsBefore(_, _)
CodeUnitsBefore(a, b) ==
    IF a = <<>> THEN b # <<>>
    ELSE IF b = <<>> THEN FALSE
    ELSE IF Head(a) # Head(b) THEN Head(a) < Head(b)
    ELSE CodeUnitsBefore(Tail(a), Tail(b))

\* the array left as it was written
Unsorted(ids) == ids

\* [a, b].sort()
Sort(ids) ==
    IF CodeUnitsBefore(ids[2], ids[1]) THEN <<ids[2], ids[1]>> ELSE ids

\* ids.join('_')
Join(ids) == ids[1] \o <<Underscore>> \o ids[2]

\* the places that compute a conversation id, and the ids they may be given:
\* the routes take the other user's id from the request, the others from an
\* ObjectId
Places ==
    {"POST /api/messages", "GET /api/messages", "POST /api/contacts",
     "ContactSchema.pre('save')", "MessageSchema.pre('save')"}

OtherIds(place) ==
    IF place \in {"POST /api/messages", "GET /api/messages"}
    THEN IdStrings ELSE ObjectIdStrings

\* POST /api/messages, part_001 lines 81-82
SendConversationId(userId, recipientId) == Join(Sort(<<userId, recipientId>>))

\* GET /api/messages with a contactId, part_001 lines 209-210
QueryConversationId(userId, contactId) == Join(Sort(<<userId, contactId>>))

\* POST /api/contacts, route.ts lines 151-152
AddContactConversationId(userId, contactUserId) ==
    Join(Sort(<<userId, contactUserId>>))

\* ContactSchema.pre('save'), contact.ts lines 61-62
ContactPreSave(owner, contact) == Join(Sort(<<owner, contact>>))

\* MessageSchema.pre('save'), db.ts lines 138-139
MessagePreSave(sender, recipient) == Join(Sort(<<sender, recipient>>))

ConversationIdAt(place, a, b) ==
    CASE place = "POST /api/messages" -> SendConversationId(a, b)
      [] place = "GET /api/messages" -> QueryConversationId(a, b)
      [] place = "POST /api/contacts" -> AddContactConversationId(a, b)
      [] place = "ContactSchema.pre('save')" -> ContactPreSave(a, b)
      [] place = "MessageSchema.pre('save')" -> MessagePreSave(a, b)

\* a place computes the conversation id of two users; a run follows the
\* places' results for one pair of users
Compute(place, a, b) ==
    /\ Cardinality(conversationIds) < MaxComputed
    /\ \A c \in conversationIds : {c.a, c.b} = {a, b}
    /\ conversationIds' = conversationIds \cup
          {[place |-> place, a |-> a, b |-> b,
            conversationId |-> ConversationIdAt(place, a, b)]}
    /\ UNCHANGED <<keyVars, socketVars, redisVars, userIsOnline, restPc, restCalls,
                   inbox, histVars, handshake, exited, clockVars, clientVars,
                   cipherVars, sessionVars, sendVars,
                   hookVars>>

NextConversation ==
    \E place \in Places : \E a \in ObjectIdStrings, b \in OtherIds(place) :
        Compute(place, a, b)

\* the routes and save hooks computing conversation ids
SpecConversation == Init /\ [][NextConversation]_vars

\* the encryptionService of two users' clients
SpecCipher == Init /\ [][NextCipher]_vars

NextInit ==
    \/ \E u \in Users : InitializeKeysCall(u)
    \/ \E u \in Users, i \in 1 .. MaxInitCalls, ok \in BOOLEAN :
          InitializeKeysFetched(u, i, ok)
    \/ \E u \in Users : ClearKeys(u)

\* initializeKeys called any number of times, its calls overlapping
SpecInit == Init /\ [][NextInit]_vars

\* the messages two users' clients encrypt, with the service and with the
\* useEncryption hook
SpecSession == Init /\ [][NextSession]_vars

NextAuth ==
    \/ \E token \in Tokens : Handshake(token)
    \/ \E s \in SocketIds : Disconnect(s)
    \/ \E s \in SocketIds, r \in Users :
          \E c \in ClientConversationIds(socketUser[s], r) : MessageSend(s, r, c)
    \/ LpushReply
    \/ LrangeReply

\* the socket server facing clients with and without a valid credential
SpecAuth == Init /\ [][NextAuth]_vars

\* the key directory's prekey-bundle route
\* any published pool, and a socket server that plays no part
InitDirectory == InitKeys /\ InitServer /\ InitCipher /\ InitHooks

SpecKeys == InitDirectory /\ [][NextKeys]_vars

(***************************************************************************)
(* What the clients observed                                               *)
(***************************************************************************)
\* the message:receive events of a list of events, in order
Receives(events) == SelectSeq(events, LAMBDA e : e.type = "message:receive")

\* the message numbers a socket received, live or drained, in order
ReceivedSeq(socketId) ==
    LET evs == Receives(inbox[socketId]) IN
    [i \in 1 .. Len(evs) |-> evs[i].data.item.message]

Received(socketId) == Range(ReceivedSeq(socketId))

\* whether a list of numbers is strictly ascending
Ascending(seq) == \A i, j \in 1 .. Len(seq) : i < j => seq[i] < seq[j]

\* whether the connection's drain (lines 228-246) has run to its end
DrainCompleted(socketId) ==
    \A i \in 1 .. Len(redisReplies) :
        ~(redisReplies[i].kind = "lrange" /\ redisReplies[i].socketId = socketId)

\* whether the step is the continuation of a drain whose read returned entries
IsDrainClear ==
    /\ Len(redisReplies) > 0
    /\ Head(redisReplies).kind = "lrange"
    /\ Len(Head(redisReplies).result) > 0
    /\ redisReplies' = Tail(redisReplies)

\* C2: at-least-once delivery: every envelope appended to a recipient's
\* offline queue is still queued, or expired with its key, or was forwarded
\* to a connection of the recipient that was open.
C2_AtLeastOnce ==
    \A n \in enqueued :
        LET recipientId == sendLog[n].recipientId IN
        \/ n \in MessagesIn(pendingMessages[recipientId])
        \/ n \in expired
        \/ \E s \in SocketIds : socketUser[s] = recipientId /\ n \in Received(s)

\* C3: the offline queue drains in FIFO order: a drain forwards the entries
\* it read to the connecting socket oldest first (e1, e2, e3), and leaves the
\* queue empty for a second drain.
C3_FifoDrain ==
    [][IsDrainClear =>
        LET reply == Head(redisReplies)
            forwarded == [i \in 1 .. Len(reply.result) |-> reply.result[i].item.message]
        IN  /\ Ascending(forwarded)
            /\ pendingMessages'[reply.userId] = <<>>]_vars

\* C7: drain-and-clear is one indivisible step: what the clear removes from
\* the queue is exactly what the read returned (entries that expired with
\* their key in between aside).
C7_DrainClearIndivisible ==
    [][IsDrainClear =>
        LET reply == Head(redisReplies)
            returned == MessagesIn(reply.result)
            removed == MessagesIn(pendingMessages[reply.userId])
        IN  /\ removed \subseteq returned
            /\ returned \subseteq removed \cup expired]_vars

\* C9: for one sender-recipient pair, every recipient handle receives the
\* sender's envelopes in the order the server handled the sends, whether
\* they came by live fan-out or by a drain.
C9_PairOrder ==
    \A s \in SocketIds : \A a \in Users :
        Ascending(SelectSeq(ReceivedSeq(s), LAMBDA n : sendLog[n].senderId = a))

\* whether the step handles a message:send event
IsRoute == Len(sendLog') = Len(sendLog) + 1

\* C6: route(envelope) does exactly one of two things, by the recipient's
\* handle set at the call: a non-empty set gets the envelope on every handle
\* and nothing is enqueued; with an empty set the envelope is appended to the
\* recipient's queue and reaches no handle. A queue that holds entries has
\* its retention expiry set once the route that created it has finished.
C6_RouteFanOutOrEnqueue ==
    /\ [][IsRoute =>
            LET n == Len(sendLog')
                recipientId == sendLog'[n].recipientId
                handles == Range(connectedUsers[recipientId])
                got(s) == /\ Len(inbox'[s]) = Len(inbox[s]) + 1
                          /\ SubSeq(inbox'[s], 1, Len(inbox[s])) = inbox[s]
                          /\ inbox'[s][Len(inbox'[s])].type = "message:receive"
                          /\ inbox'[s][Len(inbox'[s])].data.item.message = n
            IN  IF handles # {}
                THEN /\ \A s \in handles : got(s)
                     /\ \A s \in SocketIds \ handles : inbox'[s] = inbox[s]
                     /\ pendingMessages' = pendingMessages
                ELSE /\ inbox' = inbox
                     /\ Len(pendingMessages'[recipientId]) =
                            Len(pendingMessages[recipientId]) + 1
                     /\ n \in MessagesIn(pendingMessages'[recipientId])
                     /\ \A u \in Users \ {recipientId} :
                            pendingMessages'[u] = pendingMessages[u]]_vars
    /\ [](\A u \in Users :
            (Len(pendingMessages[u]) > 0 /\ ~pendingTtl[u]) =>
                \E i \in 1 .. Len(redisReplies) :
                    redisReplies[i].kind = "lpush" /\ redisReplies[i].userId = u)

\* a send was fanned out to two handles of the recipient, and another was
\* enqueued for an offline recipient and has its expiry set
C6_Witness ==
    /\ \E n \in 1 .. Len(sendLog) : \E s1, s2 \in connected :
          /\ s1 # s2
          /\ socketUser[s1] = sendLog[n].recipientId
          /\ socketUser[s2] = sendLog[n].recipientId
          /\ n \in Received(s1) /\ n \in Received(s2)
          /\ n \notin enqueued
    /\ \E n \in enqueued :
          /\ n \in MessagesIn(pendingMessages[sendLog[n].recipientId])
          /\ pendingTtl[sendLog[n].recipientId]
          /\ \A s \in SocketIds : n \notin Received(s)

\* the outstanding read of a connection's drain, or the empty list
DrainRead(socketId) ==
    LET idx == {i \in 1 .. Len(redisReplies) :
                   redisReplies[i].kind = "lrange" /\ redisReplies[i].socketId = socketId}
    IN  IF idx = {} THEN <<>> ELSE redisReplies[CHOOSE i \in idx : TRUE].result

HandleAnyStatus(status, event, messageId) ==
    IF event.type = "message:status" THEN event.data.status ELSE status

\* handleMessageStatus, page.tsx lines 529-547: the status of the message
\* whose id is messageId after the client handled one event
HandleMessageStatus(status, event, messageId) ==
    IF event.type = "message:status" /\ event.data.messageId = messageId
    THEN event.data.status
    ELSE status

\* the status the client shows for its message after the first k events of a
\* socket; a message starts as 'sent' (page.tsx line 372)
StatusSeen(socketId, messageId, k) ==
    LET RECURSIVE fold(_)
        fold(i) == IF i = 0 THEN "sent"
                   ELSE HandleMessageStatus(fold(i - 1), inbox[socketId][i], messageId)
    IN  fold(k)

StateRank(status) ==
    CASE status = "sent" -> 0
      [] status = "delivered" -> 1
      [] status = "read" -> 2

\* whether user u's online record reads true (contacts route, line 46)
IsOnline(userId) == online[userId] = "true"

\* C4: DeliveryState is monotonic: the status a sender sees for one of its
\* messages never regresses, whatever the order of delivered and read acks;
\* once Read, a later delivered ack leaves it at Read.
C4_MonotonicStatus ==
    \A s \in SocketIds : \A m \in 1 .. Len(sendLog) :
        (sendLog[m].senderId = socketUser[s]
            /\ sendLog[m].recipientId # sendLog[m].senderId) =>
            \A k \in 1 .. Len(inbox[s]) :
                StateRank(StatusSeen(s, m, k - 1)) <= StateRank(StatusSeen(s, m, k))

\* C5: a user's online record reads true if and only if the user's set of
\* open connection handles is non-empty.
C5_OnlineIffConnected ==
    \A u \in Users : IsOnline(u) <=> Len(connectedUsers[u]) > 0

\* whether the step handles a delivered / read acknowledgement
IsAck == Len(ackLog') = Len(ackLog) + 1

\* whether the acknowledgement is the first for a message sent to another
\* user, and comes from a connection of that recipient
AcceptedAck(ack) ==
    /\ ack.messageId \in 1 .. Len(sendLog)
    /\ socketUser[ack.socketId] = sendLog[ack.messageId].recipientId
    /\ sendLog[ack.messageId].recipientId # sendLog[ack.messageId].senderId
    /\ \A i \in 1 .. Len(ackLog) : ackLog[i].messageId # ack.messageId

\* C10: on an accepted delivered / read transition the status notification
\* goes to every open handle of the user who sent the envelope and to no
\* handle of anyone else, whatever senderId the acknowledgement carries.
C10_NotifyOriginalSender ==
    [][IsAck =>
        LET ack == ackLog'[Len(ackLog')]
            notified == {s \in SocketIds : inbox'[s] # inbox[s]}
        IN  AcceptedAck(ack) =>
                /\ notified = {s \in connected :
                                  socketUser[s] = sendLog[ack.messageId].senderId}
                /\ \A s \in notified :
                      inbox'[s] = Append(inbox[s],
                                         StatusEvent(ack.messageId, ack.status))]_vars

(***************************************************************************)
(* The handle sets                                                         *)
(***************************************************************************)
\* the connections of a user that are open
OpenConnections(userId) == {s \in connected : socketUser[s] = userId}

\* C12: after any sequence of connection opens and closes, the handle set
\* recorded for each user is exactly the set of that user's open connections,
\* each recorded once: a closed connection's handle is never left registered,
\* and a user with no open connection has no entry.
C12_HandlesAreOpenConnections ==
    \A u \in Users :
        /\ Range(connectedUsers[u]) = OpenConnections(u)
        /\ Len(connectedUsers[u]) = Cardinality(OpenConnections(u))
        /\ (OpenConnections(u) = {} => connectedUsers[u] = <<>>)

\* a user opened two connections and closed the first: the second is the
\* user's whole entry
C12_Witness ==
    \E s1, s2 \in SocketIds :
        /\ s1 < s2 /\ socketUser[s1] = socketUser[s2] /\ socketUser[s1] # NoUser
        /\ s1 \notin connected /\ s2 \in connected
        /\ connectedUsers[socketUser[s2]] = <<s2>>

(***************************************************************************)
(* Refused handshakes                                                      *)
(***************************************************************************)
\* whether the socket presented no credential or one that does not verify
Unauthorized(socketId) == handshake[socketId].kind \in {"missing", "forged"}

\* whether the step is the handshake of such a socket
IsUnauthorizedOpen ==
    /\ nextSocket' = nextSocket + 1
    /\ handshake'[nextSocket].kind \in {"missing", "forged"}

\* C13: a connection whose bearer credential is missing or fails verification
\* fails the whole open: its handshake changes no handle set, no online record,
\* no queue and no inbox and starts no drain, and afterwards the socket is in
\* no handle set, has no user and no handler that would dispatch its events.
C13_UnauthorizedOpenFails ==
    /\ [][IsUnauthorizedOpen =>
            UNCHANGED <<connectedUsers, connected, socketUser, redisReplies,
                        redisVars, inbox, histVars>>]_vars
    /\ [](\A s \in SocketIds : Unauthorized(s) =>
            /\ s \notin connected
            /\ socketUser[s] = NoUser
            /\ \A u \in Users : s \notin Range(connectedUsers[u])
            /\ inbox[s] = <<>>
            /\ DrainCompleted(s)
            /\ \A r \in Users : \A c \in ClientConversationIds(r, r) :
                  ~ENABLED MessageSend(s, r, c)
            /\ ~ENABLED Disconnect(s))

\* a handshake with a token that does not verify was refused while another
\* user's connection was open, and that connection is still served
C13_Witness ==
    \E s1, s2 \in SocketIds :
        /\ s1 < s2
        /\ handshake[s1].kind = "signed" /\ s1 \in connected
        /\ handshake[s2].kind = "forged" /\ handshake[s2].userId # socketUser[s1]
        /\ IsOnline(socketUser[s1]) /\ ~IsOnline(handshake[s2].userId)

(***************************************************************************)
(* End to end: the read receipt of a drained envelope                      *)
(***************************************************************************)
\* where the envelope of message n is among the events a socket received
PositionOf(socketId, n) ==
    {i \in 1 .. Len(inbox[socketId]) :
        /\ inbox[socketId][i].type = "message:receive"
        /\ inbox[socketId][i].data.item.message = n}

\* whether the recipient's client handled the drained envelope of message n
\* while it showed the conversation with the sender
ReadByRecipient(socketId, n) ==
    \E i \in PositionOf(socketId, n) :
        /\ i <= Len(handled[socketId])
        /\ handled[socketId][i] = sendLog[n].senderId

\* whether nothing of the connection is in flight: the client handled every
\* event and the server every event the client emitted
Settled(socketId) ==
    /\ Len(handled[socketId]) = Len(inbox[socketId])
    /\ Relayed(socketId) = Len(emitted[socketId])

\* C11: end to end: A sends an envelope to offline B; B connects, receives the
\* drained envelope and reads it. Once the read acknowledgement has gone
\* through, every connection of A that was open all along has received a
\* status notification carrying the id under which A holds the message, so
\* A's copy of the message is Read.
C11_ReadReachesSender ==
    \A n \in enqueued : \A sB \in connected :
        (/\ sendLog[n].recipientId = socketUser[sB]
         /\ sendLog[n].senderId # socketUser[sB]
         /\ ReadByRecipient(sB, n)
         /\ Settled(sB)) =>
            \A sA \in connected :
                (/\ socketUser[sA] = sendLog[n].senderId
                 /\ sA < sB
                 /\ Settled(sA)) =>
                    StatusSeen(sA, n, Len(inbox[sA])) = "read"

(***************************************************************************)
(* Failures of the queue store                                             *)
(***************************************************************************)
\* C14: no error in the core crashes the whole process: whatever failures of
\* the queue store happen during route (enqueue) or during drain, the process
\* keeps running, so the other connections stay open and served.
C14_StoreFailureIsConfined == ~exited

(***************************************************************************)
(* Retention of the offline queue                                          *)
(***************************************************************************)
\* C15: offline-queue entries older than the retention window are never
\* delivered: whatever was enqueued for the recipient since, a drain does not
\* forward an envelope that was enqueued more than the retention window
\* (7 days) before.
C15_ExpiredNeverDelivered ==
    [][IsDrainClear =>
        \A n \in MessagesIn(Head(redisReplies).result) :
            now - enqueuedAt[n] <= PendingExpireSeconds]_vars

\* the messages encryptMessage returned, as the recipient named got them
Genuine(call) ==
    {i \in 1 .. Len(sealed) : sealed[i].message = call.em}

\* both users have a key pair and each has cached the other's public key
HoldEachOthersKey(a, b) ==
    /\ keyStorage[a].myKeyPair # NoKeyPair
    /\ keyStorage[b].myKeyPair # NoKeyPair
    /\ keyStorage[a].contactPublicKeys[b] = keyStorage[b].myKeyPair.publicKey
    /\ keyStorage[b].contactPublicKeys[a] = keyStorage[a].myKeyPair.publicKey

\* the box of the i-th encrypted message
BoxOf(i) == DecodeBase64(sealed[i].message.ciphertext)

\* C16: a message that one user encrypted for the other under the agreement
\* of their current key pairs, decrypted by the other while each holds the
\* other's current public key, comes back as the plaintext that was encrypted.
C16_RoundTrip ==
    lastCall.op = "decryptMessage" =>
        \A i \in Genuine(lastCall) :
            (/\ sealed[i].from = lastCall.peer
             /\ sealed[i].to = lastCall.by
             /\ HoldEachOthersKey(lastCall.by, lastCall.peer)
             /\ BoxOf(i).secret =
                   BoxBefore(DecodeBase64(keyStorage[lastCall.by].myKeyPair.publicKey),
                             DecodeBase64(keyStorage[lastCall.peer].myKeyPair.secretKey)))
            => lastCall.result = Returned(EncodeUTF8(BoxOf(i).plain))

\* C17: decryptMessage returns a plaintext only for a ciphertext and nonce
\* exactly as encryptMessage produced them and under the secret they were
\* encrypted with; with anything else it throws, 'Failed to decrypt message'
\* when it has a secret, and processMessage throws as well.
C17_TamperedNeverDecrypts ==
    lastCall.op = "decryptMessage" =>
        \/ \E i \in Genuine(lastCall) :
              /\ BoxOf(i).secret = lastCall.secret
              /\ lastCall.result = Returned(EncodeUTF8(BoxOf(i).plain))
        \/ /\ lastCall.result.threw
           /\ ProcessMessage(lastCall.result).threw
           /\ lastCall.secret # NoSecret
                 => lastCall.result = Threw("Failed to decrypt message")

\* a decryption under the right secret of a ciphertext with a bit flipped,
\* which threw
C17_Witness ==
    /\ lastCall.op = "decryptMessage"
    /\ lastCall.secret # NoSecret
    /\ IsBase64(lastCall.em.ciphertext)
    /\ DecodeBase64(lastCall.em.ciphertext).flipped
    /\ DecodeBase64(lastCall.em.ciphertext).secret = lastCall.secret
    /\ lastCall.result = Threw("Failed to decrypt message")

\* C18: no two encryptions under the same key use the same nonce or IV,
\* with the service or with the hook.
C18_NoNonceReuse ==
    /\ \A i, j \in 1 .. Len(sealed) :
          (i < j /\ BoxOf(i).secret = BoxOf(j).secret)
              => BoxOf(i).nonce # BoxOf(j).nonce
    /\ \A i, j \in 1 .. Len(hookSealed) :
          (i < j /\ hookSealed[i].key = hookSealed[j].key)
              => hookSealed[i].iv # hookSealed[j].iv

\* C19: a cached shared secret is the agreement of the user's current secret
\* key with the public key cached for the contact.
C19_SecretMatchesCachedKey ==
    \A user \in Users : \A userId \in Contacts(user) :
        LET storage == keyStorage[user] IN
        storage.sharedSecrets[userId] # NoSecret =>
            /\ storage.myKeyPair # NoKeyPair
            /\ IsBase64(storage.contactPublicKeys[userId])
            /\ DecodeBase64(storage.contactPublicKeys[userId]).length = PublicKeyLength
            /\ storage.sharedSecrets[userId] =
                  BoxBefore(DecodeBase64(storage.contactPublicKeys[userId]),
                            DecodeBase64(storage.myKeyPair.secretKey))

\* C20: storing a public key of another length than the curve's throws, and
\* leaves the cached public key and the cached secret of the contact as they
\* were.
C20_WrongLengthRejected ==
    [][(/\ lastCall'.op = "storeContactPublicKey"
        /\ IsBase64(lastCall'.key)
        /\ DecodeBase64(lastCall'.key).length # PublicKeyLength)
       => /\ lastCall'.result.threw
          /\ keyStorage' = keyStorage]_vars

\* the user has no public key of the contact and the server has none to give
KeyNotObtainable(user, userId) ==
    /\ keyStorage[user].contactPublicKeys[userId] = Undefined
    /\ publicKeys[userId] = Undefined

\* a call of encryptMessage or decryptMessage by the user for the contact
UsesKeyOf(user, userId) ==
    \/ \E message \in Messages, env \in Environments :
          EncryptMessage(user, userId, message, env)
    \/ \E encryptedMessage \in Receivable, env \in Environments :
          DecryptMessage(user, userId, encryptedMessage, env)

\* C21: encryptMessage and decryptMessage for a contact whose public key is
\* neither cached nor to be had from the server throw, produce no ciphertext
\* and leave the contact without a cached public key and shared secret.
C21_NoKeyMaterialFails ==
    [][\A user \in Users : \A userId \in Contacts(user) :
          (KeyNotObtainable(user, userId) /\ UsesKeyOf(user, userId))
          => /\ lastCall'.result.threw
             /\ sealed' = sealed
             /\ keyStorage'[user].contactPublicKeys[userId] = Undefined
             /\ keyStorage'[user].sharedSecrets[userId] = NoSecret]_vars

\* the directory holds a public key of the right length for the user
DirectoryHoldsValidKey(userId) ==
    /\ IsBase64(publicKeys[userId])
    /\ DecodeBase64(publicKeys[userId]).length = PublicKeyLength

\* encryptMessage by the user for the contact, returning an encrypted message
EncryptSucceeds(user, userId) ==
    \E message \in Messages, env \in Environments :
        /\ EncryptMessage(user, userId, message, env)
        /\ ~lastCall'.result.threw

\* C22: after an encryptMessage that threw, while the user has a key pair and
\* the directory holds a valid public key of the contact, the call can be
\* made again and return an encrypted message.
C22_RetrySucceeds ==
    \A user \in Users : \A userId \in Contacts(user) :
        (/\ lastCall.op = "encryptMessage"
         /\ lastCall.by = user
         /\ lastCall.peer = userId
         /\ lastCall.result.threw
         /\ keyStorage[user].myKeyPair # NoKeyPair
         /\ DirectoryHoldsValidKey(userId))
        => ENABLED EncryptSucceeds(user, userId)

\* C23: every message content sent to the server, by REST or by socket, is
\* the result of an encryption.
C23_OnlyCiphertextLeaves ==
    \A m \in sent : m.content.encryptedBy # "none"

\* the strings that hold a secret key of a generated pair
SecretKeys == {GenerateKeyPair(k).secretKey : k \in 1 .. keyPairs}

\* C24: the key a user's client posted to the server, which the server holds
\* as the user's public key, is no secret key, and no message sent carries
\* anything but a text the user typed or the result of an encryption.
C24_SecretKeyStaysLocal ==
    /\ \A user \in Users :
          /\ publicKeys[user] \notin SecretKeys
          /\ publicKeys[user].bytes.half # "secret"
    /\ \A m \in sent :
          m.content.encryptedBy = "none" => m.content.text \in Messages

\* a user has published the public key of the pair in the storage, and has
\* sent a message sealed by the service
C24_Witness ==
    \E user \in Users :
        /\ keyStorage[user].myKeyPair # NoKeyPair
        /\ publicKeys[user] = keyStorage[user].myKeyPair.publicKey
        /\ \E m \in sent : m.content.encryptedBy = "useSecureMessaging"

\* C25: any two computations of a conversation id for the same two users, at
\* whichever places and in whichever order of the two, give the same value.
C25_ConversationIdSymmetric ==
    \A c, d \in conversationIds :
        {c.a, c.b} = {d.a, d.b} => c.conversationId = d.conversationId

\* two places computed the id of two different users, each with the users the
\* other way round, and sort() had to exchange them in one
C25_Witness ==
    \E c, d \in conversationIds :
        /\ c.place # d.place
        /\ c.a # c.b
        /\ c.a = d.b /\ c.b = d.a
        /\ CodeUnitsBefore(c.b, c.a)
        /\ c.conversationId = d.conversationId

(***************************************************************************)
(* lastSeen and the presence notifications                                 *)
(***************************************************************************)
\* whether the step takes user u's handle set from non-empty to empty
BecomesOffline(u) == Len(connectedUsers[u]) > 0 /\ Len(connectedUsers'[u]) = 0

\* whether the step takes user u's handle set from empty to non-empty
BecomesOnline(u) == Len(connectedUsers[u]) = 0 /\ Len(connectedUsers'[u]) > 0

\* C26: lastSeen of a user is written exactly on transitions to offline:
\* closing one of two open handles leaves the user online and lastSeen as it
\* was, closing the last handle marks the user offline and stamps lastSeen,
\* and no other operation changes lastSeen.
C26_LastSeenOnlyOnOffline ==
    [][\A u \in Users :
          /\ lastSeen'[u] # lastSeen[u] <=> BecomesOffline(u)
          /\ BecomesOffline(u) => online'[u] = "false"
          /\ (Len(connectedUsers[u]) = 2 /\ Len(connectedUsers'[u]) = 1) =>
                online'[u] = online[u]]_vars

\* whether the step delivers a presence notification of this type about
\* user u to some connection
Notified(type, u) ==
    \E s \in SocketIds :
        /\ Len(inbox'[s]) = Len(inbox[s]) + 1
        /\ inbox'[s][Len(inbox'[s])] = PresenceEvent(type, u)

\* the connections other than user u's that stay open over the step
Observers(u) == {s \in connected \cap connected' : socketUser[s] # u}

\* C27: an online notification for user U is emitted when, and only when,
\* U's handle set goes from empty to non-empty, and an offline notification
\* when, and only when, it becomes empty; a further connection of a user who
\* is already online emits no online notification.
C27_NotifyOnTransitionsOnly ==
    [][\A u \in Users :
          /\ Notified("user:online", u) => BecomesOnline(u)
          /\ Notified("user:offline", u) => BecomesOffline(u)
          /\ (BecomesOnline(u) /\ Observers(u) # {}) => Notified("user:online", u)
          /\ (BecomesOffline(u) /\ Observers(u) # {}) => Notified("user:offline", u)]_vars

(***************************************************************************)
(* Repeated and unknown acknowledgements                                   *)
(***************************************************************************)
\* the acknowledgements handled so far for message m that came from a
\* connection of its recipient
AcksFor(m) ==
    {i \in 1 .. Len(ackLog) :
        /\ ackLog[i].messageId = m
        /\ socketUser[ackLog[i].socketId] = sendLog[m].recipientId}

\* the delivery state of message m after the acknowledgements handled so far
DeliveryState(m) ==
    IF \E i \in AcksFor(m) : ackLog[i].status = "read" THEN "read"
    ELSE IF AcksFor(m) # {} THEN "delivered"
    ELSE "sent"

\* whether the acknowledgement asks for a state the message already has or
\* has passed
Repeated(ack) ==
    /\ ack.messageId \in 1 .. Len(sendLog)
    /\ sendLog[ack.messageId].recipientId # sendLog[ack.messageId].senderId
    /\ ack.senderId = sendLog[ack.messageId].senderId
    /\ socketUser[ack.socketId] = sendLog[ack.messageId].recipientId
    /\ StateRank(ack.status) <= StateRank(DeliveryState(ack.messageId))

\* C28: a delivered ack for an id that is already Delivered or Read, and a
\* read ack for an id that is already Read, are no-ops: they send no status
\* notification to the sender's connections.
C28_RepeatedAckIsSilent ==
    [][IsAck => (Repeated(ackLog'[Len(ackLog')]) => inbox' = inbox)]_vars

\* whether the acknowledgement names a message that does not exist
UnknownAck(ack) == ack.messageId \notin 1 .. Len(sendLog)

\* the status shown for message m on connection s after all its events
StatusShown(s, m) == StatusSeen(s, m, Len(inbox[s]))

\* C29: a delivered or read ack whose envelope id is unknown is ignored, not
\* errored: it changes the delivery state of no envelope, as the server holds
\* it or as the sender's client shows it, and it raises no error at either.
C29_UnknownAckChangesNoState ==
    [][(IsAck /\ UnknownAck(ackLog'[Len(ackLog')])) =>
          /\ UNCHANGED <<socketVars, redisVars, restVars, sendLog, enqueued,
                         expired, typingLog, handshake, exited>>
          /\ ~exited'
          /\ \A s \in SocketIds : \A m \in 1 .. Len(sendLog) :
                StatusShown(s, m)' = StatusShown(s, m)]_vars

\* an unknown acknowledgement was relayed to a connection of a user who has
\* sent a message to someone else
C29_Witness ==
    \E i \in 1 .. Len(ackLog) : \E s \in connected : \E m \in 1 .. Len(sendLog) :
        /\ UnknownAck(ackLog[i])
        /\ sendLog[m].senderId = socketUser[s]
        /\ sendLog[m].recipientId # socketUser[s]
        /\ ackLog[i].senderId = socketUser[s]
        /\ \E k \in 1 .. Len(inbox[s]) :
              inbox[s][k] = StatusEvent(ackLog[i].messageId, ackLog[i].status)

(***************************************************************************)
(* Typing indicators                                                       *)
(***************************************************************************)
\* whether the step handles a typing:start / typing:stop event
IsTyping == Len(typingLog') = Len(typingLog) + 1

\* C30: typing start/stop is pure fan-out: the typing event is emitted to
\* exactly the recipient's handles open at that moment, and when the
\* recipient has none nothing is emitted; the offline queue, the presence
\* records and every other piece of server state stay as they were.
C30_TypingIsPureFanOut ==
    [][IsTyping =>
        LET t == typingLog'[Len(typingLog')]
            handles == {s \in connected : socketUser[s] = t.recipientId}
        IN  /\ \A s \in SocketIds :
                  inbox'[s] =
                      IF s \in handles
                      THEN Append(inbox[s],
                                  TypingEvent(t.type, socketUser[t.socketId],
                                              t.conversationId))
                      ELSE inbox[s]
            /\ UNCHANGED <<socketVars, redisVars, restVars, sendLog, enqueued,
                           expired, ackLog, handshake, exited, clockVars>>]_vars

\* a typing event was handled for a recipient with no connection and a
\* message waiting in the offline queue, and another one for a recipient
\* with an open connection
C30_Witness ==
    \E i, j \in 1 .. Len(typingLog) :
        /\ typingLog[i].handles = 0
        /\ Len(pendingMessages[typingLog[i].recipientId]) > 0
        /\ typingLog[i].type = "typing:start"
        /\ typingLog[j].handles > 0
        /\ typingLog[j].type = "typing:stop"

\* C31: on the receiving client a typing-start with no following typing-stop
\* self-expires: the indicator for that sender eventually returns to
\* not-typing even if no stop event ever arrives.
C31_TypingSelfExpires ==
    \A s \in SocketIds : \A u \in Users :
        typingUsers[s][u] ~> ~typingUsers[s][u]

(***************************************************************************)
(* The identity key pair                                                   *)
(***************************************************************************)
\* the initializeKeys calls of user u with no clearKeys after them
CallsSinceClear(u) == {i \in 1 .. Len(initCalls[u]) : ~initCalls[u][i].cleared}

\* C32: the identity key pair is generated once and regenerated only if
\* absent: any number of initializeKeys calls, sequential or overlapping,
\* without an intervening clearKeys return the same key pair and generate at
\* most one.
C32_KeyPairGeneratedOnce ==
    \A u \in Users :
        /\ \A i, j \in CallsSinceClear(u) :
              initCalls[u][i].keyPair = initCalls[u][j].keyPair
        /\ Cardinality({i \in CallsSinceClear(u) : initCalls[u][i].generated}) <= 1
        /\ \A i \in CallsSinceClear(u) :
              initCalls[u][i].keyPair = keyStorage[u].myKeyPair

\* a call returned while an earlier one of the same user was still awaiting
\* its POST, after a clearKeys that had followed a first generation
C32_Witness ==
    \E u \in Users : \E i, j \in CallsSinceClear(u) : \E c \in 1 .. Len(initCalls[u]) :
        /\ i < j /\ c < i
        /\ initCalls[u][c].cleared /\ initCalls[u][c].generated
        /\ initCalls[u][i].pc = "fetch"
        /\ initCalls[u][j].pc = "done"

EnvelopesReceived(s) ==
    {inbox[s][k].data.item : k \in {i \in 1 .. Len(inbox[s]) :
                                       inbox[s][i].type = "message:receive"}}

EnvelopesQueued(u) == {pendingMessages[u][k].item : k \in 1 .. Len(pendingMessages[u])}

\* C34: the server constructs the envelope itself: the conversationId of
\* every envelope delivered or queued is the sorted join of the authenticated
\* sender id and the recipient id, whatever conversationId the client
\* supplied, and the envelope carries a server-assigned id.
C34_ServerBuildsEnvelope ==
    /\ \A s \in SocketIds : \A e \in EnvelopesReceived(s) :
          /\ e.conversationId = ConversationId(e.senderId, socketUser[s])
          /\ "id" \in DOMAIN e
    /\ \A u \in Users : \A e \in EnvelopesQueued(u) :
          /\ e.conversationId = ConversationId(e.senderId, u)
          /\ "id" \in DOMAIN e

\* the events a step appended to the inbox of connection x
NewEvents(x) == {inbox'[x][k] : k \in Len(inbox[x]) + 1 .. Len(inbox'[x])}

\* the user authenticated at the handshake of connection s
Authenticated(s) ==
    IF handshake[s].kind = "signed" THEN handshake[s].userId ELSE NoUser

\* C36: the senderId of every message-receive event, live or drained, and of
\* every typing event delivered to a recipient is the user id authenticated
\* at the handshake of the connection that sent it; no field of the client's
\* payload changes it.
C36_SenderIsAuthenticated ==
    [][/\ \A s \in SocketIds, r \in Users, c \in AnyConversationIds :
            /\ MessageSend(s, r, c) =>
                  /\ sendLog'[Len(sendLog')].senderId = Authenticated(s)
                  /\ \A x \in SocketIds : \A e \in NewEvents(x) :
                        e.data.item.senderId = Authenticated(s)
                  /\ \A e \in EnvelopesQueued(r)' \ EnvelopesQueued(r) :
                        e.senderId = Authenticated(s)
            /\ (TypingStart(s, r, c) \/ TypingStop(s, r, c)) =>
                  \A x \in SocketIds : \A e \in NewEvents(x) :
                      e.data.senderId = Authenticated(s)
       /\ \A x \in SocketIds : \A e \in EnvelopesReceived(x)' :
             e.senderId = sendLog'[e.message].senderId]_vars

\* a connection received a message and a typing event whose conversationId
\* names a conversation their sender has no part in
C36_Witness ==
    \E x \in SocketIds :
        /\ \E e \in EnvelopesReceived(x) : e.senderId \notin Range(e.conversationId)
        /\ \E k \in 1 .. Len(inbox[x]) :
              /\ inbox[x][k].type \in {"typing:start", "typing:stop"}
              /\ inbox[x][k].data.senderId \notin Range(inbox[x][k].data.conversationId)

(***************************************************************************)
(* Drained against live delivery                                           *)
(***************************************************************************)
\* the payload a live delivery of the send that produced `data` carries
LivePayload(data) ==
    Plain(Envelope(data.item.senderId, data.item.message, data.item.conversationId))

\* C35: an envelope forwarded from the offline queue is the envelope that was
\* enqueued: each drained envelope reaches the handle as one receive event
\* with the senderId, message, conversationId and timestamp fields a live
\* delivery of the same send would have carried, and the receiving client
\* handles it the same way.
C35_DrainedAsLive ==
    \A s \in SocketIds : \A k \in 1 .. Len(inbox[s]) :
        inbox[s][k].type = "message:receive" =>
            LET data == inbox[s][k].data IN
                /\ data.array = LivePayload(data).array
                /\ data.item.timestamp.t = LivePayload(data).item.timestamp.t
                /\ \A contact \in Users \cup {NoUser}, isConnected \in BOOLEAN :
                      HandleReceiveMessage(socketUser[s], data, contact, isConnected)
                        = HandleReceiveMessage(socketUser[s], LivePayload(data),
                                               contact, isConnected)

(***************************************************************************)
(* useSecureMessaging's `initialized` and the key storage                  *)
(***************************************************************************)
\* C37: whenever useSecureMessaging reports initialized = true the key
\* storage holds a local identity key pair, so a newly stored peer key
\* always yields a shared secret, across any sequence of initializeKeys,
\* clearKeys and peer-key store operations.
C37_InitializedHasKeyPair ==
    \A u \in Users :
        secureInitialized[u] =>
            /\ keyStorage[u].myKeyPair # NoKeyPair
            /\ (/\ lastCall.op = "storeContactPublicKey"
                /\ lastCall.by = u
                /\ lastCall.key \in {GenerateKeyPair(k).publicKey : k \in 1 .. keyPairs})
                  => keyStorage[u].sharedSecrets[lastCall.peer] # NoSecret

(***************************************************************************)
(* The typing indicator of the client that types                           *)
(***************************************************************************)
\* the type of the last typing event connection s emitted
LastTypingEmitted(s) ==
    IF Len(typingEmitted[s]) = 0 THEN "none"
    ELSE typingEmitted[s][Len(typingEmitted[s])].type

\* C38: on the sending client every typing-start emitted is followed by a
\* typing-stop once 1.5 seconds pass without further input or when the
\* message is sent: for every sequence of keystrokes, a single keystroke
\* included, the peer is never left with a start that has no later stop
\* while the client stays connected.
C38_StartIsFollowedByStop ==
    \A s \in SocketIds :
        (LastTypingEmitted(s) = "typing:start")
            ~> (LastTypingEmitted(s) = "typing:stop" \/ s \notin connected)

(***************************************************************************)
(* useSocket holds one socket                                              *)
(***************************************************************************)
\* the connections of the user's useSocket instance the server holds open
LiveSockets(u) == {s \in connected : socketUser[s] = u}

\* C39: each useSocket instance holds at most one live socket: whatever
\* connect() and disconnect() calls were made, after disconnect() or unmount
\* (the ref is null) no socket the instance created remains connected, and so
\* none stays in the server's presence map.
C39_OneLiveSocket ==
    \A u \in Users :
        /\ Cardinality(LiveSockets(u)) <= 1
        /\ socketRef[u] = NoSocket =>
              /\ LiveSockets(u) = {}
              /\ connectedUsers[u] = <<>>

====
